---- MODULE Spec2Model ----
(***************************************************************************)
(* AnecDOT: the DOT validation-and-deduplication core.                     *)
(*                                                                         *)
(*   validation/writer.py        JSONLWriter (the record store)            *)
(*   validation/schema.py        DataRecord                                *)
(*   common/id_generator.py      generate_id, extract_hash_from_id         *)
(*   validation/dot_validator.py validate_dot, validate_batch, the cache   *)
(*                                                                         *)
(* A Python str is a sequence of characters, a file a sequence of bytes.   *)
(* A character or byte is written as a short TLA+ string: "a" is the       *)
(* letter a, "LF" the newline, "QUOTE" the double quote, "BSLASH" the      *)
(* backslash, "e_acute" a character outside ASCII, whose UTF-8 encoding is *)
(* the two bytes "xC3" "xA9".  A token such as "NL_TO_DOT" or "K_id"       *)
(* stands for a run of ASCII bytes that the program only ever writes and   *)
(* reads as a whole ("K_id" is the JSON key with its colon: "id": ).       *)
(***************************************************************************)
EXTENDS Integers, Sequences, FiniteSets, TLC

VARIABLES
    file,           \* writer.py: the bytes of the output file (empty: absent or empty)
    existing_ids,   \* writer.py: JSONLWriter.existing_ids
    alive,          \* writer.py: a JSONLWriter instance exists in a running process
    storeOp,        \* the last store operation, its argument and its outcome
    acked,          \* ids of the records whose append returned True (any instance)
    rejected,       \* ids of the records whose append raised ValueError
    nAppends,       \* append calls made so far
    nCrashes,       \* appends that ended with the process dying
    nIOErrors,      \* appends that ended with an I/O failure
    sha256,         \* hashlib.sha256(...).hexdigest(), as a function of the content
    idOp,           \* the last id_generator call, its arguments and its result
    idLog,          \* <<content, prefix, id>> of every generate_id call so far
    nIdCalls,       \* id_generator calls made so far
    cache,          \* dot_validator.py: the entries of _cached_validate, least recently used first
    hits,           \* _cached_validate.cache_info().hits
    misses,         \* _cached_validate.cache_info().misses
    recency,        \* the keys inserted into the cache or hit so far, the latest use last
    dotInstalled,   \* shutil.which("dot") finds the compiler
    valOp,          \* the last validate_dot call, its arguments and its outcome
    nValCalls,      \* validate_dot calls made so far
    batch,          \* the validate_batch call: its arguments, its locals, its position
    futures,        \* the calls of validate_dot the batch submitted, one per input
    thr,            \* writer.py: for each thread, its position inside append
    trueCalls,      \* the appends of the threads that returned True, as a bag of ids
    impl,           \* dot_validator.py: a call of _validate_impl step by step, with
                    \* the child processes it started
    scraper,        \* graphviz_gallery.py: the run of main(), its scraper and its metrics
    schema          \* schema.py: the last call of DataRecord.validate and what it returned

storeVars == <<file, existing_ids, alive, storeOp, acked, rejected, nAppends, nCrashes, nIOErrors>>

idVars == <<sha256, idOp, idLog, nIdCalls>>

cacheVars == <<cache, hits, misses, recency>>

valVars == <<cacheVars, dotInstalled, valOp, nValCalls>>

batchVars == <<batch, futures>>

threadVars == <<thr, trueCalls>>

vars == <<storeVars, idVars, valVars, batchVars, threadVars, impl, scraper, schema>>

\* what an operation of one component leaves alone: the other components
notStore == <<idVars, valVars, batchVars, threadVars, impl, scraper, schema>>
notIds == <<storeVars, valVars, batchVars, threadVars, impl, scraper, schema>>
notValidator == <<storeVars, idVars, batchVars, threadVars, impl, scraper, schema>>
notBatch == <<storeVars, idVars, threadVars, impl, scraper, schema>>
notThreads == <<idVars, valVars, batchVars, impl, scraper, schema>>
notImpl == <<storeVars, idVars, batchVars, threadVars, cacheVars, valOp, scraper, schema>>

-----------------------------------------------------------------------------
(* Bounds *)

MaxAppends == 2
MaxFaults == 1
MaxIdCalls == 3
MaxValCalls == 3
\* the maxsize of the cache, 1000 in the source (dot_validator.py:73)
CacheMaxSize == 2
\* the bytes the file object buffers before it writes them out, 8192 in
\* CPython (io.DEFAULT_BUFFER_SIZE); the line of RecB is longer, the others not
BufferSize == 52
\* example pages the gallery index links to
MaxPages == 2
\* calls of validate_dot where only the cache is looked at
MaxCacheCalls == 4

-----------------------------------------------------------------------------
(* Python values *)

\* None where a str is expected: a value no sequence of characters equals
None == <<"PyNone">>

\* a dict where a str is expected (unhashable)
Dict == <<"PyDict">>

\* None where a message (a TLA+ string) is expected
NoMessage == "None"

\* str.join / concatenation of a sequence of sequences
RECURSIVE Flatten(_)
Flatten(ss) == IF ss = <<>> THEN <<>> ELSE Head(ss) \o Flatten(Tail(ss))

\* bytes = str.encode('utf-8'): one byte per ASCII character, two for e_acute
Utf8Char(c) == IF c = "e_acute" THEN <<"xC3", "xA9">> ELSE <<c>>

Utf8Encode(s) == Flatten([i \in 1..Len(s) |-> Utf8Char(s[i])])

\* bytes.decode('utf-8'): a lead byte needs its continuation byte, a
\* continuation byte needs its lead byte; anything else is UnicodeDecodeError.
\* The text has one character for each byte that is not a continuation byte.
IsNotContinuation(x) == x # "xA9"

Utf8Decode(b) ==
    IF \A i \in 1..Len(b) :
           /\ b[i] = "xC3" => (i < Len(b) /\ b[i + 1] = "xA9")
           /\ b[i] = "xA9" => (i > 1 /\ b[i - 1] = "xC3")
    THEN [ok |-> TRUE,
          text |-> LET t == SelectSeq(b, IsNotContinuation)
                   IN  [i \in 1..Len(t) |-> IF t[i] = "xC3" THEN "e_acute" ELSE t[i]]]
    ELSE [ok |-> FALSE, text |-> <<>>]

-----------------------------------------------------------------------------
(* validation/schema.py: DataRecord *)

FieldOrder ==
    <<"id", "source", "source_url", "license", "task_type", "input_text",
      "output_dot", "verification_status", "scraped_at", "context_snippet">>

KeyTok(name) ==
    CASE name = "id" -> "K_id"
      [] name = "source" -> "K_source"
      [] name = "source_url" -> "K_source_url"
      [] name = "license" -> "K_license"
      [] name = "task_type" -> "K_task_type"
      [] name = "input_text" -> "K_input_text"
      [] name = "output_dot" -> "K_output_dot"
      [] name = "verification_status" -> "K_verification_status"
      [] name = "scraped_at" -> "K_scraped_at"
      [] name = "context_snippet" -> "K_context_snippet"

Keys == {KeyTok(FieldOrder[i]) : i \in 1..Len(FieldOrder)}

\* datetime.fromisoformat(ts.replace('Z', '+00:00')) succeeds
IsoTimestamps == {<<"2024-01-01T00:00:00Z">>, <<"2024-01-01T00:00:00">>}

Falsy(v) == v = <<>> \/ v = None

\* (mutant) the task_type check is missing
DataRecordValidateNoTaskType(r) ==
    IF Falsy(r.id) \/ Falsy(r.source) \/ Falsy(r.source_url) \/ Falsy(r.license)
       \/ Falsy(r.input_text) \/ Falsy(r.output_dot)
    THEN <<FALSE, "a required field is empty">>
    ELSE <<TRUE, NoMessage>>

\* (mutant) scraped_at is not looked at
DataRecordValidateNoTimestamp(r) ==
    IF Falsy(r.id) THEN <<FALSE, "id cannot be empty">>
    ELSE IF Falsy(r.source) THEN <<FALSE, "source cannot be empty">>
    ELSE IF Falsy(r.source_url) THEN <<FALSE, "source_url cannot be empty">>
    ELSE IF Falsy(r.license) THEN <<FALSE, "license cannot be empty">>
    ELSE IF r.task_type \notin {<<"NL_TO_DOT">>, <<"CODE_TO_DOT">>}
         THEN <<FALSE, "task_type must be NL_TO_DOT or CODE_TO_DOT">>
    ELSE IF Falsy(r.input_text) THEN <<FALSE, "input_text cannot be empty">>
    ELSE IF Falsy(r.output_dot) THEN <<FALSE, "output_dot cannot be empty">>
    ELSE IF r.verification_status \notin {<<"passed_compiler">>, <<"failed_compiler">>}
         THEN <<FALSE, "verification_status must be passed_compiler or failed_compiler">>
    ELSE <<TRUE, NoMessage>>

\* DataRecord.validate: (is_valid, error_message), the checks in source order
DataRecordValidate(r) ==
    IF Falsy(r.id) THEN <<FALSE, "id cannot be empty">>
    ELSE IF Falsy(r.source) THEN <<FALSE, "source cannot be empty">>
    ELSE IF Falsy(r.source_url) THEN <<FALSE, "source_url cannot be empty">>
    ELSE IF Falsy(r.license) THEN <<FALSE, "license cannot be empty">>
    ELSE IF r.task_type \notin {<<"NL_TO_DOT">>, <<"CODE_TO_DOT">>}
         THEN <<FALSE, "task_type must be NL_TO_DOT or CODE_TO_DOT">>
    ELSE IF Falsy(r.input_text) THEN <<FALSE, "input_text cannot be empty">>
    ELSE IF Falsy(r.output_dot) THEN <<FALSE, "output_dot cannot be empty">>
    ELSE IF r.verification_status \notin {<<"passed_compiler">>, <<"failed_compiler">>}
         THEN <<FALSE, "verification_status must be passed_compiler or failed_compiler">>
    ELSE IF r.scraped_at = None \/ r.scraped_at \notin IsoTimestamps
         THEN <<FALSE, "scraped_at must be valid ISO 8601 timestamp">>
    ELSE <<TRUE, NoMessage>>

\* no call of validate yet
InitSchema == schema = [op |-> "none", rec |-> <<>>, result |-> <<FALSE, NoMessage>>]

\* the values a caller gives to the str fields: text, the empty str, None
Texts == {<<"v">>, <<>>, None}

\* scraped_at values: two that datetime.fromisoformat reads once 'Z' has
\* been replaced, two on which it raises ValueError, and None, on which
\* .replace raises AttributeError
Timestamps == IsoTimestamps \cup {<<"2024-01-01T00:00:00ZZ">>, <<"not-a-timestamp">>, None}

SchemaRecords ==
    [id : Texts, source : Texts, source_url : Texts, license : Texts,
     task_type : {<<"NL_TO_DOT">>, <<"CODE_TO_DOT">>, <<"INVALID_TYPE">>},
     input_text : Texts, output_dot : {<<"g">>, <<>>},
     verification_status : {<<"passed_compiler">>, <<"failed_compiler">>, <<"invalid_status">>},
     scraped_at : Timestamps, context_snippet : {None, <<"c">>}]

\* record.validate(), on a record just built; it reads the record alone, so
\* one call after each start shows all it does
Validate(r) ==
    /\ schema.op = "none"
    /\ schema' = [op |-> "validate", rec |-> r, result |-> DataRecordValidate(r)]
    /\ UNCHANGED <<storeVars, idVars, valVars, batchVars, threadVars, impl, scraper>>

NextSchema == \E r \in SchemaRecords : Validate(r)

\* json.dumps of one str: quotes around it, and ", \ and the newline escaped
JsonEscapeChar(c) ==
    CASE c = "QUOTE" -> <<"BSLASH", "QUOTE">>
      [] c = "BSLASH" -> <<"BSLASH", "BSLASH">>
      [] c = "LF" -> <<"BSLASH", "n">>
      [] OTHER -> <<c>>

JsonDumpsValue(v) ==
    IF v = None THEN <<"null">>
    ELSE <<"QUOTE">> \o Flatten([i \in 1..Len(v) |-> JsonEscapeChar(v[i])]) \o <<"QUOTE">>

\* DataRecord.to_json: json.dumps(asdict(self), ensure_ascii=False), the
\* fields in declaration order, "," standing for the separator ", "
ToJson(r) ==
    <<"{">>
    \o Flatten([i \in 1..Len(FieldOrder) |->
            (IF i = 1 THEN <<>> ELSE <<",">>)
            \o <<KeyTok(FieldOrder[i])>> \o JsonDumpsValue(r[FieldOrder[i]])])
    \o <<"}">>

-----------------------------------------------------------------------------
(* json.loads, restricted to what to_json can write: objects whose members  *)
(* are key tokens with a string, null or object value.  A Parse operator    *)
(* returns the index after the value it read, or 0 for JSONDecodeError.     *)

\* the inside of a string, from index j to the closing quote
RECURSIVE ScanString(_, _)
ScanString(s, j) ==
    IF j > Len(s) THEN 0                          \* unterminated string
    ELSE IF s[j] = "QUOTE" THEN j + 1
    ELSE IF s[j] = "BSLASH"
         THEN IF j + 1 <= Len(s) /\ s[j + 1] \in {"QUOTE", "BSLASH", "n"}
              THEN ScanString(s, j + 2)
              ELSE 0                              \* invalid \escape
    ELSE IF s[j] = "LF" THEN 0                    \* raw control character
    ELSE IF s[j] \in Keys THEN 0                  \* its quote ends the string, a bare name follows
    ELSE ScanString(s, j + 1)

RECURSIVE ParseValue(_, _)
RECURSIVE ParseMembers(_, _)
ParseValue(s, i) ==
    IF i > Len(s) THEN 0
    ELSE IF s[i] = "QUOTE" THEN ScanString(s, i + 1)
    ELSE IF s[i] = "null" THEN i + 1
    ELSE IF s[i] = "{"
         THEN IF i + 1 <= Len(s) /\ s[i + 1] = "}" THEN i + 2
              ELSE ParseMembers(s, i + 1)
    ELSE 0

ParseMembers(s, j) ==
    IF j > Len(s) \/ s[j] \notin Keys THEN 0
    ELSE LET v == ParseValue(s, j + 1)
         IN  IF v = 0 \/ v > Len(s) THEN 0
             ELSE IF s[v] = "," THEN ParseMembers(s, v + 1)
             ELSE IF s[v] = "}" THEN v + 1
             ELSE 0

\* the str a JSON string literal (quotes included) denotes
RECURSIVE JsonUnescape(_, _, _)
JsonUnescape(s, j, acc) ==
    IF j >= Len(s) THEN acc
    ELSE IF s[j] = "BSLASH"
         THEN JsonUnescape(s, j + 2, Append(acc, IF s[j + 1] = "n" THEN "LF" ELSE s[j + 1]))
    ELSE JsonUnescape(s, j + 1, Append(acc, s[j]))

\* the Python value of the JSON text s[i..e-1]
JsonValueAt(s, i, e) ==
    IF s[i] = "QUOTE" THEN JsonUnescape(SubSeq(s, i, e - 1), 2, <<>>)
    ELSE IF s[i] = "null" THEN None
    ELSE Dict

\* the members of the object that starts at s[1], as a dict lookup of `key`:
\* a later member with the same key replaces an earlier one
RECURSIVE ObjectGet(_, _, _, _)
ObjectGet(s, j, key, acc) ==
    IF s[j] \notin Keys THEN acc
    ELSE LET v == ParseValue(s, j + 1)
             acc2 == IF s[j] = key
                     THEN [has |-> TRUE, value |-> JsonValueAt(s, j + 1, v)]
                     ELSE acc
         IN  IF s[v] = "," THEN ObjectGet(s, v + 1, key, acc2) ELSE acc2

\* json.loads(line): ok is FALSE for JSONDecodeError (also for extra data
\* after the value); kind is the type of the value read
JsonLoads(s) ==
    LET e == ParseValue(s, 1)
    IN  IF e # Len(s) + 1 THEN [ok |-> FALSE, kind |-> "error", text |-> <<>>]
        ELSE [ok |-> TRUE,
              kind |-> IF s[1] = "{" THEN "dict" ELSE IF s[1] = "QUOTE" THEN "str" ELSE "NoneType",
              text |-> s]

-----------------------------------------------------------------------------
(* validation/writer.py: JSONLWriter *)

Whitespace == {" ", "LF", "TAB"}

\* str.strip()
RECURSIVE LStrip(_)
LStrip(s) == IF s # <<>> /\ Head(s) \in Whitespace THEN LStrip(Tail(s)) ELSE s

RECURSIVE RStrip(_)
RStrip(s) ==
    IF s # <<>> /\ s[Len(s)] \in Whitespace THEN RStrip(SubSeq(s, 1, Len(s) - 1)) ELSE s

Strip(s) == RStrip(LStrip(s))

\* the lines `for line in f` yields: each ends with its newline, the last
\* one without a newline when the text does not end in one
RECURSIVE SplitLines(_, _)
SplitLines(t, start) ==
    IF start > Len(t) THEN <<>>
    ELSE LET lfs == {i \in start..Len(t) : t[i] = "LF"}
             e == IF lfs = {} THEN Len(t) ELSE CHOOSE i \in lfs : \A j \in lfs : i <= j
         IN  <<SubSeq(t, start, e)>> \o SplitLines(t, e + 1)

\* 'id' in record, for a str record: substring test
HasSubstringId(s) == \E i \in 1..(Len(s) - 1) : s[i] = "i" /\ s[i + 1] = "d"

\* the loop of _load_existing_ids over the decoded lines.  A TypeError
\* ('id' in None, record['id'] of a str, an unhashable id) is not a
\* JSONDecodeError: it leaves the loop for the outer handler, which resets
\* existing_ids to set().
RECURSIVE LoadLines(_, _, _)
LoadLines(lines, k, ids) ==
    IF k > Len(lines) THEN ids
    ELSE LET line == Strip(lines[k])
             record == JsonLoads(line)
         IN  IF line = <<>> THEN LoadLines(lines, k + 1, ids)
             ELSE IF ~record.ok THEN LoadLines(lines, k + 1, ids)
             ELSE IF record.kind = "NoneType" THEN {}
             ELSE IF record.kind = "str"
                  THEN IF HasSubstringId(JsonValueAt(line, 1, Len(line) + 1))
                       THEN {} ELSE LoadLines(lines, k + 1, ids)
             ELSE LET m == IF line[2] = "}" THEN [has |-> FALSE, value |-> None]
                           ELSE ObjectGet(line, 2, "K_id", [has |-> FALSE, value |-> None])
                  IN  IF ~m.has THEN LoadLines(lines, k + 1, ids)
                      ELSE IF m.value = Dict THEN {}
                      ELSE LoadLines(lines, k + 1, ids \cup {m.value})

\* _load_existing_ids: open(..., 'r', encoding='utf-8'); a UnicodeDecodeError
\* while reading is caught by `except Exception`, which starts fresh
LoadExistingIds(bytes) ==
    LET d == Utf8Decode(bytes)
    IN  IF ~d.ok THEN {} ELSE LoadLines(SplitLines(d.text, 1), 1, {})

\* (mutant) the duplicate check never finds the id
IsDuplicateNever(ids, record_id) == FALSE

\* is_duplicate
IsDuplicate(ids, record_id) == record_id \in ids

\* count_existing
CountExistingOf(ids) == Cardinality(ids)

\* the bytes one successful append writes: f.write(record.to_json() + '\n')
LineBytes(r) == Utf8Encode(ToJson(r) \o <<"LF">>)

-----------------------------------------------------------------------------
(* DOT sources.  A source is a str given as runs of one repeated character, *)
(* so that a source of 10 MiB is a value of the model.                      *)

Run(c, n) == [c |-> c, n |-> n]

SrcGood == <<Run("G", 1)>>
SrcBad == <<Run("B", 1)>>
SrcAccent == <<Run("G", 1), Run("e_acute", 1)>>

IdContents == {SrcGood, SrcBad, SrcAccent}

-----------------------------------------------------------------------------
(* common/id_generator.py *)

HexDigestLen == 64
ShortHashLen == 16

HexDigits == <<"0", "1", "2", "3", "4", "5", "6", "7", "8", "9", "a", "b", "c", "d", "e", "f">>

\* three hex digests: DigestB agrees with DigestA on the first 16 characters
\* only; DigestC differs from both in the first character
DigestA == [i \in 1..HexDigestLen |-> HexDigits[((i - 1) % 16) + 1]]
DigestB == [i \in 1..HexDigestLen |-> IF i <= 16 THEN DigestA[i] ELSE HexDigits[((3 * i) % 16) + 1]]
DigestC == [i \in 1..HexDigestLen |-> HexDigits[((i + 6) % 16) + 1]]

Digests == {DigestA, DigestB, DigestC}

\* sixteen digests that differ pairwise in every character
Digest(k) == [i \in 1..HexDigestLen |-> HexDigits[((i - 1 + k) % 16) + 1]]

\* the source prefixes: none, the docstring's "gallery", and the two the
\* scrapers pass, "graphviz-gallery" and "attr-docs"
Prefixes ==
    {<<>>, <<"gallery">>, <<"graphviz", "-", "gallery">>, <<"attr", "-", "docs">>}

\* (mutant) the separator is written even when the prefix is empty
generate_id_always_prefixed(output_dot, source_prefix) ==
    source_prefix \o <<"-">> \o SubSeq(sha256[output_dot], 1, ShortHashLen)

\* generate_id(output_dot, source_prefix)
generate_id(output_dot, source_prefix) ==
    LET content_hash == sha256[output_dot]
        short_hash == SubSeq(content_hash, 1, ShortHashLen)
    IN  IF source_prefix # <<>>
        THEN source_prefix \o <<"-">> \o short_hash
        ELSE short_hash

\* extract_hash_from_id(id_string): id_string.split('-', 1)[1], the text
\* after the first '-', or id_string when it holds no '-'
extract_hash_from_id(id_string) ==
    IF \E i \in 1..Len(id_string) : id_string[i] = "-"
    THEN LET first == CHOOSE i \in 1..Len(id_string) :
                          /\ id_string[i] = "-"
                          /\ \A j \in 1..(i - 1) : id_string[j] # "-"
         IN  SubSeq(id_string, first + 1, Len(id_string))
    ELSE id_string

IdOp(op, content, prefix, id, result) ==
    [op |-> op, content |-> content, prefix |-> prefix, id |-> id, result |-> result]

\* the id_generator is not in use
InitIdsIdle ==
    /\ sha256 = [c \in IdContents |-> DigestA]
    /\ idOp = IdOp("none", <<>>, <<>>, <<>>, <<>>)
    /\ idLog = {}
    /\ nIdCalls = 0

\* SHA-256 is some function of the content; contents may collide, entirely
\* or in the first 16 hex characters
InitIds ==
    /\ sha256 \in [IdContents -> Digests]
    /\ idOp = IdOp("none", <<>>, <<>>, <<>>, <<>>)
    /\ idLog = {}
    /\ nIdCalls = 0

GenerateId(content, prefix) ==
    /\ nIdCalls < MaxIdCalls
    /\ nIdCalls' = nIdCalls + 1
    /\ idOp' = IdOp("generate_id", content, prefix, <<>>, generate_id(content, prefix))
    /\ idLog' = idLog \cup {<<content, prefix, generate_id(content, prefix)>>}
    /\ UNCHANGED sha256
    /\ UNCHANGED notIds

\* extract_hash_from_id applied to the id the last generate_id call returned
ExtractHashFromId ==
    /\ idOp.op = "generate_id"
    /\ idOp' = IdOp("extract_hash_from_id", idOp.content, idOp.prefix, idOp.result,
                    extract_hash_from_id(idOp.result))
    /\ UNCHANGED <<sha256, idLog, nIdCalls>>
    /\ UNCHANGED notIds

NextIds ==
    \/ \E content \in IdContents, prefix \in Prefixes : GenerateId(content, prefix)
    \/ ExtractHashFromId

-----------------------------------------------------------------------------
(* The records the callers pass to append *)

Rec(id, input_text, task_type, context_snippet) ==
    [id |-> id, source |-> <<"s">>, source_url |-> <<"u">>, license |-> <<"l">>,
     task_type |-> task_type, input_text |-> input_text, output_dot |-> <<"g">>,
     verification_status |-> <<"passed_compiler">>,
     scraped_at |-> <<"2024-01-01T00:00:00Z">>, context_snippet |-> context_snippet]

RecA1 == Rec(<<"a">>, <<"x">>, <<"NL_TO_DOT">>, None)
\* the id of RecA1, other fields different, a character outside ASCII
RecA2 == Rec(<<"a">>, <<"e_acute">>, <<"CODE_TO_DOT">>, None)
\* a newline and a quote inside a field
RecB == Rec(<<"b">>, <<"x", "LF">>, <<"NL_TO_DOT">>, <<"QUOTE">>)
\* violates the schema (task_type); RecB is its corrected form
RecBBad == Rec(<<"b">>, <<"x", "LF">>, <<"DOT">>, <<"QUOTE">>)

Records == {RecA1, RecA2, RecB, RecBBad}

RecordIds == {r.id : r \in Records}

NoRecord == Rec(None, None, None, None)

StoreOp(op, rec, id, outcome, ret, count) ==
    [op |-> op, rec |-> rec, id |-> id, outcome |-> outcome, ret |-> ret, count |-> count]

-----------------------------------------------------------------------------
(* validation/writer.py: the operations *)

InitStore ==
    /\ file = <<>>
    /\ existing_ids = {}
    /\ alive = FALSE
    /\ storeOp = StoreOp("none", NoRecord, None, "none", "None", 0)
    /\ acked = {}
    /\ rejected = {}
    /\ nAppends = 0
    /\ nCrashes = 0
    /\ nIOErrors = 0

\* JSONLWriter(output_path): a new instance (in a new process after a crash
\* or an exit), which loads the ids of the file
Construct ==
    /\ existing_ids' = LoadExistingIds(file)
    /\ alive' = TRUE
    /\ storeOp' = StoreOp("construct", NoRecord, None, "returned", "None", 0)
    /\ UNCHANGED notStore
    /\ UNCHANGED <<file, acked, rejected, nAppends, nCrashes, nIOErrors>>

\* is_duplicate(record_id) and count_existing() read existing_ids and change
\* nothing; what they return is IsDuplicate(existing_ids, record_id) and
\* CountExistingOf(existing_ids) of the state they are called in
IsDuplicateCall(record_id) ==
    /\ alive
    /\ IsDuplicate(existing_ids, record_id) \in BOOLEAN
    /\ UNCHANGED vars

CountExisting ==
    /\ alive
    /\ CountExistingOf(existing_ids) >= 0
    /\ UNCHANGED vars

\* the failures of open() and of the write that append meets, as str(e)
\* spells them
PermissionDenied == "[Errno 13] Permission denied"
NoSpaceLeft == "[Errno 28] No space left on device"
IOErrors == {PermissionDenied, NoSpaceLeft}

\* the message of the IOError that leaves append (lines 102-105)
RaisedIOError(e) ==
    IF e = NoSpaceLeft THEN "Disk full, cannot write to output_path" ELSE e

\* the id is known from the start of append, written or not
IdsAfterWriteAddFirst(ids, record_id, written) == ids \cup {record_id}

\* existing_ids.add(record.id) stands behind the with block (line 99): it is
\* reached when the line is written and skipped when open or write raised
IdsAfterWrite(ids, record_id, written) ==
    IF written THEN ids \cup {record_id} ELSE ids

\* a file opened with mode 'w': what it held is lost
WriteTruncating(f, bytes) == bytes

\* (mutant) the schema check comes first: nothing is known of a record that
\* violates the schema
IsDuplicateOfValid(ids, record) == DataRecordValidate(record)[1] /\ IsDuplicate(ids, record.id)

\* lines 85-86 of append: the duplicate check looks at the id alone
IsDuplicateRecord(ids, record) == IsDuplicate(ids, record.id)

\* open(output_path, 'a') and the bytes that reach the file: they go to its end
WriteAppended(f, bytes) == f \o bytes

\* append(record).  The duplicate check, then the schema check, then the
\* write.  The write has three outcomes the program does not choose:
\*   - all bytes reach the file: the id is added, True is returned;
\*   - open() fails (permission), or the write fails (disk full) after k
\*     bytes of the line: IOError propagates, the id is not added;
\*   - the process dies after k bytes of the line (k = all: before returning).
WriterAppend(record) ==
    /\ IF IsDuplicateRecord(existing_ids, record)
       THEN /\ storeOp' = StoreOp("append", record, record.id, "returned", "False", 0)
            /\ UNCHANGED <<file, existing_ids, alive, acked, rejected, nCrashes, nIOErrors>>
       ELSE IF ~DataRecordValidate(record)[1]
       THEN /\ storeOp' = StoreOp("append", record, record.id, "ValueError", "None", 0)
            /\ rejected' = rejected \cup {record.id}
            /\ UNCHANGED <<file, existing_ids, alive, acked, nCrashes, nIOErrors>>
       ELSE LET line == LineBytes(record)
            IN  \/ /\ file' = WriteAppended(file, line)
                   /\ existing_ids' = IdsAfterWrite(existing_ids, record.id, TRUE)
                   /\ acked' = acked \cup {record.id}
                   /\ storeOp' = StoreOp("append", record, record.id, "returned", "True", 0)
                   /\ UNCHANGED <<alive, rejected, nCrashes, nIOErrors>>
                \/ /\ nCrashes + nIOErrors < MaxFaults
                   /\ nIOErrors' = nIOErrors + 1
                   /\ \E e \in IOErrors :
                          /\ \E k \in (IF e = PermissionDenied THEN {0} ELSE 0..(Len(line) - 1)) :
                                 file' = WriteAppended(file, SubSeq(line, 1, k))
                          /\ storeOp' = StoreOp("append", record, record.id, "IOError",
                                                RaisedIOError(e), 0)
                   /\ existing_ids' = IdsAfterWrite(existing_ids, record.id, FALSE)
                   /\ UNCHANGED <<alive, acked, rejected, nCrashes>>
                \/ /\ nCrashes + nIOErrors < MaxFaults
                   /\ nCrashes' = nCrashes + 1
                   /\ \E k \in 0..Len(line) : file' = WriteAppended(file, SubSeq(line, 1, k))
                   /\ alive' = FALSE
                   /\ existing_ids' = {}
                   /\ storeOp' = StoreOp("append", record, record.id, "crashed", "None", 0)
                   /\ UNCHANGED <<acked, rejected, nIOErrors>>

\* append(record) called on the writer, one call after the other
AppendRecord(record) ==
    /\ alive
    /\ nAppends < MaxAppends
    /\ nAppends' = nAppends + 1
    /\ UNCHANGED notStore
    /\ WriterAppend(record)

NextStore ==
    \/ Construct
    \/ \E id \in RecordIds : IsDuplicateCall(id)
    \/ CountExisting
    \/ \E r \in Records : AppendRecord(r)


-----------------------------------------------------------------------------
(* validation/writer.py: append called by several threads on one instance. *)
(* The code takes no lock, so a thread can be overtaken between any two of *)
(* its steps: the duplicate check (line 85), each write of buffered bytes   *)
(* to the file opened in 'a' mode (lines 95-96), the update of            *)
(* existing_ids (line 99).                                                 *)

Threads == {"t1", "t2"}

Thread(pc, rec, pending, ret) ==
    [pc |-> pc,            \* "idle", "called", "writing", "written"
     rec |-> rec,          \* the record of the call
     pending |-> pending,  \* the bytes of the line not yet in the file
     ret |-> ret]          \* what the last call returned or raised

InitThreads ==
    /\ thr = [t \in Threads |-> Thread("idle", NoRecord, <<>>, "None")]
    /\ trueCalls = [id \in RecordIds |-> 0]

\* the bytes one write() of the file object puts into the file: the whole
\* rest of the line when the buffer holds it
Chunk(pending) == SubSeq(pending, 1, IF Len(pending) > BufferSize THEN BufferSize ELSE Len(pending))

\* the store the threads share is constructed while none of them is inside
\* append
ThreadsConstruct ==
    /\ \A t \in Threads : thr[t].pc = "idle"
    /\ ~alive
    /\ existing_ids' = LoadExistingIds(file)
    /\ alive' = TRUE
    /\ storeOp' = StoreOp("construct", NoRecord, None, "returned", "None", 0)
    /\ UNCHANGED <<file, acked, rejected, nAppends, nCrashes, nIOErrors>>
    /\ UNCHANGED threadVars
    /\ UNCHANGED notThreads

\* thread t calls append(record)
ThreadCall(t, record) ==
    /\ alive
    /\ thr[t].pc = "idle"
    /\ nAppends < MaxAppends
    /\ nAppends' = nAppends + 1
    /\ thr' = [thr EXCEPT ![t] = Thread("called", record, <<>>, "None")]
    /\ UNCHANGED <<file, existing_ids, alive, storeOp, acked, rejected, nCrashes, nIOErrors>>
    /\ UNCHANGED trueCalls
    /\ UNCHANGED notThreads

\* lines 85-91: the duplicate check and the schema check
ThreadCheck(t) ==
    /\ thr[t].pc = "called"
    /\ IF IsDuplicate(existing_ids, thr[t].rec.id)
       THEN /\ thr' = [thr EXCEPT ![t].pc = "idle", ![t].ret = "False"]
            /\ UNCHANGED rejected
       ELSE IF ~DataRecordValidate(thr[t].rec)[1]
       THEN /\ thr' = [thr EXCEPT ![t].pc = "idle", ![t].ret = "ValueError"]
            /\ rejected' = rejected \cup {thr[t].rec.id}
       ELSE /\ thr' = [thr EXCEPT ![t].pc = "writing", ![t].pending = LineBytes(thr[t].rec)]
            /\ UNCHANGED rejected
    /\ UNCHANGED <<file, existing_ids, alive, storeOp, acked, nAppends, nCrashes, nIOErrors>>
    /\ UNCHANGED trueCalls
    /\ UNCHANGED notThreads

\* lines 95-96: one write of buffered bytes; in 'a' mode they go to the end
\* of the file as it is then
ThreadWrite(t) ==
    /\ thr[t].pc = "writing"
    /\ file' = file \o Chunk(thr[t].pending)
    /\ thr' = [thr EXCEPT ![t].pending = SubSeq(thr[t].pending, Len(Chunk(thr[t].pending)) + 1,
                                                Len(thr[t].pending)),
                          ![t].pc = IF Len(Chunk(thr[t].pending)) = Len(thr[t].pending)
                                    THEN "written" ELSE "writing"]
    /\ UNCHANGED <<existing_ids, alive, storeOp, acked, rejected, nAppends, nCrashes, nIOErrors>>
    /\ UNCHANGED trueCalls
    /\ UNCHANGED notThreads

\* lines 99-100: the id is added and True returned
ThreadReturn(t) ==
    /\ thr[t].pc = "written"
    /\ existing_ids' = IdsAfterWrite(existing_ids, thr[t].rec.id, TRUE)
    /\ acked' = acked \cup {thr[t].rec.id}
    /\ thr' = [thr EXCEPT ![t].pc = "idle", ![t].ret = "True"]
    /\ trueCalls' = [trueCalls EXCEPT ![thr[t].rec.id] = @ + 1]
    /\ UNCHANGED <<file, alive, storeOp, rejected, nAppends, nCrashes, nIOErrors>>
    /\ UNCHANGED notThreads

NextThreads ==
    \/ ThreadsConstruct
    \/ \E t \in Threads, r \in Records : ThreadCall(t, r)
    \/ \E t \in Threads : ThreadCheck(t)
    \/ \E t \in Threads : ThreadWrite(t)
    \/ \E t \in Threads : ThreadReturn(t)

-----------------------------------------------------------------------------
(* validation/dot_validator.py: the inputs and the compiler *)

SrcEmpty == <<>>
SrcBlank == <<Run(" ", 2), Run("LF", 1)>>
SrcWarn == <<Run("W", 1)>>
\* exactly 10 MiB, one byte more, and fewer characters than 10 Mi that
\* encode to more than 10 MiB
SrcLimit == <<Run("G", 10 * 1024 * 1024)>>
SrcOver == <<Run("G", 10 * 1024 * 1024), Run("LF", 1)>>
SrcWideOver == <<Run("e_acute", 5 * 1024 * 1024), Run("G", 1)>>
\* a str that holds a lone surrogate (U+D800), as json.loads makes of "\ud800"
SrcSurrogate == <<Run("G", 1), Run("uD800", 1)>>
\* "digraph { A }", the source the gallery scraper probes the compiler with
SrcProbe == <<Run("P", 1)>>

DotSources ==
    {SrcEmpty, SrcBlank, SrcGood, SrcWarn, SrcBad, SrcLimit, SrcOver, SrcWideOver, SrcSurrogate}

Rejected == {SrcEmpty, SrcBlank, SrcOver, SrcWideOver}

\* dot_code.encode('utf-8') returns; on a lone surrogate it raises
\* UnicodeEncodeError
Encodable(code) == \A i \in 1..Len(code) : code[i].n = 0 \/ code[i].c # "uD800"

\* len(dot_code.encode('utf-8'))
Utf8Size(c) == Len(Utf8Char(c))

\* len(dot_code): the characters, not the bytes
RECURSIVE CharLen(_)
CharLen(code) == IF code = <<>> THEN 0 ELSE Head(code).n + CharLen(Tail(code))

RECURSIVE EncodedLen(_)
EncodedLen(code) ==
    IF code = <<>> THEN 0 ELSE Head(code).n * Utf8Size(Head(code).c) + EncodedLen(Tail(code))

\* not dot_code or not dot_code.strip()
IsBlank(code) == \A i \in 1..Len(code) : code[i].n = 0 \/ code[i].c \in Whitespace

MaxDotBytes == 10 * 1024 * 1024

\* the arguments (timeout, strict, use_cache, output_format) the callers pass
CallArgs ==
    {<<10, FALSE, TRUE, "png">>, <<10, TRUE, TRUE, "png">>, <<5, FALSE, TRUE, "svg">>,
     <<10, FALSE, FALSE, "svg">>}

\* an input the pre-checks reject is tried with and without the cache
PreCheckArgs == {<<10, FALSE, TRUE, "png">>, <<10, FALSE, FALSE, "svg">>}

\* What one run of `dot -T<format> -o /dev/null` does is the compiler's
\* business: for a given source it exits with a fixed code and stderr, unless
\* the run exceeds the timeout or cannot be started (OSError).
Exit(rc, stderr) == [kind |-> "exit", returncode |-> rc, stderr |-> stderr]
TimeoutExpired == [kind |-> "TimeoutExpired", returncode |-> 0, stderr |-> <<>>]
OSErrorRaised == [kind |-> "OSError", returncode |-> 0, stderr |-> <<>>]

CompilerVerdict(code) ==
    IF code = SrcBad THEN Exit(1, <<"Error: syntax error in line 1", "LF">>)
    ELSE IF code = SrcWarn THEN Exit(0, <<"Warning: node A, port b unrecognized", "LF">>)
    ELSE IF code = SrcLimit THEN Exit(1, <<>>)
    ELSE Exit(0, <<>>)

\* the runs explored: the compiler's verdict on every source, and on SrcGood
\* also a run that exceeds the timeout and one that cannot be started
CompilerOutcomes(code) ==
    {CompilerVerdict(code)} \cup (IF code = SrcGood THEN {TimeoutExpired, OSErrorRaised} ELSE {})

\* _get_compiler_version(): the text `dot -V` writes to stderr
CompilerVersion == <<"dot - graphviz version 2.43.0">>

\* time.time() - start_time of a compiler run, in ticks
Durations == {1}

-----------------------------------------------------------------------------
(* validation/dot_validator.py: ValidationResult, _validate_impl, the cache *)

ValidationResult(is_valid, error_message, compiler_version, validation_duration) ==
    [is_valid |-> is_valid, error_message |-> error_message,
     validation_method |-> "graphviz_compiler",
     compiler_version |-> compiler_version, validation_duration |-> validation_duration]

\* no ValidationResult: None in a list of results, or nothing returned
NoResult == [ValidationResult(FALSE, None, None, 0) EXCEPT !.validation_method = "None"]

\* to_schema_status
to_schema_status(result) ==
    IF result.is_valid THEN <<"passed_compiler">> ELSE <<"failed_compiler">>

\* _validate_impl after the compiler was found and has run: the classification
\* of the run's outcome (lines 153-195)
Classify(outcome, timeout, strict, duration) ==
    IF outcome.kind = "TimeoutExpired"
    THEN ValidationResult(FALSE, <<"Compilation timeout after ", ToString(timeout), " seconds">>,
                          CompilerVersion, duration)
    ELSE IF outcome.kind = "OSError"
    THEN ValidationResult(FALSE, <<"Unexpected error: ", "OSError">>, CompilerVersion, duration)
    ELSE IF outcome.returncode # 0
    THEN ValidationResult(FALSE,
                          IF outcome.stderr # <<>> THEN Strip(outcome.stderr)
                          ELSE <<"Compilation failed with exit code ", ToString(outcome.returncode)>>,
                          CompilerVersion, duration)
    ELSE IF strict /\ outcome.stderr # <<>>
    THEN ValidationResult(FALSE,
                          <<"Warnings treated as errors (strict mode): ">> \o Strip(outcome.stderr),
                          CompilerVersion, duration)
    ELSE ValidationResult(TRUE, None, CompilerVersion, duration)

\* (mutant) a key of the content alone
CacheKeyContentOnly(code, timeout, strict) == <<sha256[code], code, 0, FALSE>>

\* the key lru_cache makes of _cached_validate's arguments
CacheKey(code, timeout, strict) == <<sha256[code], code, timeout, strict>>

CacheHas(c, key) == \E i \in 1..Len(c) : c[i].key = key

CacheIndex(c, key) == CHOOSE i \in 1..Len(c) : c[i].key = key

CacheGet(c, key) == c[CacheIndex(c, key)].result

\* a hit that leaves the order of the entries alone: first in, first out
CacheKeepOrder(c, key) == c

\* a hit moves the entry to the most recently used end
CacheTouch(c, key) ==
    LET i == CacheIndex(c, key)
    IN  SubSeq(c, 1, i - 1) \o SubSeq(c, i + 1, Len(c)) \o <<c[i]>>

\* the key is used now: it becomes the latest in the order of last uses
Used(order, key) ==
    LET Other(k) == k # key
    IN  SelectSeq(order, Other) \o <<key>>

\* a cache that keeps nothing
CacheStoreNothing(c, key, result) == c

\* (mutant) a cache that does not look whether the key was stored meanwhile
CacheStoreUnchecked(c, key, result) ==
    IF Len(c) >= CacheMaxSize THEN Append(Tail(c), [key |-> key, result |-> result])
    ELSE Append(c, [key |-> key, result |-> result])

\* after the wrapped function returned: the result is stored unless the key
\* was stored meanwhile; a full cache drops its least recently used entry
CacheStore(c, key, result) ==
    IF CacheHas(c, key) THEN c
    ELSE IF Len(c) >= CacheMaxSize THEN Append(Tail(c), [key |-> key, result |-> result])
    ELSE Append(c, [key |-> key, result |-> result])

\* what one execution of _validate_impl did
ImplRun(outcome, result, compiled, fmt) ==
    [outcome |-> outcome,      \* "returned", or the exception raised
     result |-> result,        \* the ValidationResult returned
     compiled |-> compiled,    \* compiler runs (dot -T...) it started
     format_run |-> fmt]       \* the -T format of that run

\* a _validate_impl that reports the missing compiler as a result
ValidateImplNotFoundAsData(code, timeout, strict, output_format) ==
    IF ~dotInstalled
    THEN {ImplRun("returned", ValidationResult(FALSE, <<"Graphviz not found">>, None, 0), 0, "none")}
    ELSE {ImplRun("returned", Classify(outcome, timeout, strict, duration), 1, output_format) :
              outcome \in CompilerOutcomes(code), duration \in Durations}

\* _validate_impl(dot_code, timeout, strict, output_format): the executions
\* possible in the current environment
ValidateImpl(code, timeout, strict, output_format) ==
    IF ~dotInstalled
    THEN {ImplRun("GraphvizNotFoundError", NoResult, 0, "none")}
    ELSE {ImplRun("returned", Classify(outcome, timeout, strict, duration), 1, output_format) :
              outcome \in CompilerOutcomes(code), duration \in Durations}

ValOp(code, timeout, strict, use_cache, output_format, run, hit) ==
    [op |-> "validate_dot", dot_code |-> code, timeout |-> timeout, strict |-> strict,
     use_cache |-> use_cache, output_format |-> output_format,
     outcome |-> run.outcome, result |-> run.result,
     compiled |-> run.compiled, format_run |-> run.format_run,
     hit |-> hit,                \* served from the cache
     dot_found |-> dotInstalled] \* the environment of the call

NoValOp ==
    [ValOp(<<>>, 0, FALSE, FALSE, "none", ImplRun("none", NoResult, 0, "none"), FALSE)
       EXCEPT !.op = "none", !.dot_found = TRUE]

\* the id generator is not called, the validator hashes its sources: no two
\* of them collide
InitHashes ==
    /\ sha256 = [c \in {SrcGood, SrcWarn, SrcBad, SrcLimit, SrcProbe} |->
                   CASE c = SrcGood -> Digest(0) [] c = SrcWarn -> Digest(1)
                     [] c = SrcBad -> Digest(2) [] c = SrcLimit -> Digest(3)
                     [] c = SrcProbe -> Digest(4)]
    /\ idOp = IdOp("none", <<>>, <<>>, <<>>, <<>>)
    /\ idLog = {}
    /\ nIdCalls = 0

InitValidator ==
    /\ cache = <<>>
    /\ hits = 0
    /\ misses = 0
    /\ recency = <<>>
    /\ dotInstalled \in BOOLEAN
    /\ valOp = NoValOp
    /\ nValCalls = 0

\* the compiler is installed or removed between two calls
SetDotInstalled ==
    /\ batch.phase \notin {"running", "unwinding"}
    /\ dotInstalled' = ~dotInstalled
    /\ UNCHANGED <<cacheVars, valOp, nValCalls>>
    /\ UNCHANGED notValidator

\* the pre-checks of validate_dot (lines 101-113): the results they return,
\* none when the input passes
PreCheck(code) ==
    IF IsBlank(code)
    THEN {ValidationResult(FALSE, <<"Empty DOT code provided">>, None, 0)}
    ELSE IF EncodedLen(code) > MaxDotBytes
    THEN {ValidationResult(FALSE, <<"DOT code exceeds maximum size limit (10MB)">>, None, 0)}
    ELSE {}

\* validate_dot(dot_code, timeout, strict, use_cache, output_format), run by
\* one thread from call to return: its effect on the cache, and the call's
\* record in valOp
ValidateDotCall(code, timeout, strict, use_cache, output_format) ==
    LET key == CacheKey(code, timeout, strict)
    IN  IF ~IsBlank(code) /\ ~Encodable(code)
        THEN \* line 109: the exception of encode leaves validate_dot
             /\ valOp' = ValOp(code, timeout, strict, use_cache, output_format,
                               ImplRun("UnicodeEncodeError", NoResult, 0, "none"), FALSE)
             /\ UNCHANGED cacheVars
        ELSE IF PreCheck(code) # {}
        THEN \E rejection \in PreCheck(code) :
                 /\ valOp' = ValOp(code, timeout, strict, use_cache, output_format,
                                   ImplRun("returned", rejection, 0, "none"), FALSE)
                 /\ UNCHANGED cacheVars
        ELSE IF use_cache /\ CacheHas(cache, key)
        THEN \* _cached_validate: a hit
             /\ hits' = hits + 1
             /\ cache' = CacheTouch(cache, key)
             /\ recency' = Used(recency, key)
             /\ valOp' = ValOp(code, timeout, strict, use_cache, output_format,
                               ImplRun("returned", CacheGet(cache, key), 0, "none"), TRUE)
             /\ UNCHANGED misses
        ELSE IF use_cache
        THEN \* _cached_validate: a miss, counted before the call of
             \* _validate_impl, which gets no output_format
             \E run \in ValidateImpl(code, timeout, strict, "png") :
                 /\ misses' = misses + 1
                 /\ cache' = IF run.outcome = "returned"
                             THEN CacheStore(cache, key, run.result)
                             ELSE cache
                 /\ recency' = IF run.outcome = "returned" THEN Used(recency, key) ELSE recency
                 /\ valOp' = ValOp(code, timeout, strict, use_cache, output_format, run, FALSE)
                 /\ UNCHANGED hits
        ELSE \E run \in ValidateImpl(code, timeout, strict, output_format) :
                 /\ valOp' = ValOp(code, timeout, strict, use_cache, output_format, run, FALSE)
                 /\ UNCHANGED cacheVars

ValidateDot(code, timeout, strict, use_cache, output_format) ==
    /\ batch.phase \notin {"running", "unwinding"}
    /\ nValCalls < MaxValCalls
    /\ nValCalls' = nValCalls + 1
    /\ ValidateDotCall(code, timeout, strict, use_cache, output_format)
    /\ UNCHANGED dotInstalled
    /\ UNCHANGED notValidator

\* the validator is not in use
InitValidatorIdle ==
    /\ cache = <<>>
    /\ hits = 0
    /\ misses = 0
    /\ recency = <<>>
    /\ dotInstalled = TRUE
    /\ valOp = NoValOp
    /\ nValCalls = 0

NextValidator ==
    \/ SetDotInstalled
    \/ \E code \in DotSources :
           \E a \in (IF code \in Rejected \cup {SrcSurrogate} THEN PreCheckArgs ELSE CallArgs) :
               ValidateDot(code, a[1], a[2], a[3], a[4])

-----------------------------------------------------------------------------
(* validation/dot_validator.py: the cache over more calls, get_cache_stats, *)
(* clear_cache                                                             *)

CacheSources == {SrcGood, SrcWarn, SrcBad, SrcLimit}

\* validate_dot(dot_code): the defaults timeout=10, strict=False,
\* use_cache=True, output_format="png"
CachedValidate(code) ==
    /\ batch.phase \notin {"running", "unwinding"}
    /\ nValCalls < MaxCacheCalls
    /\ nValCalls' = nValCalls + 1
    /\ ValidateDotCall(code, 10, FALSE, TRUE, "png")
    /\ UNCHANGED dotInstalled
    /\ UNCHANGED notValidator

CacheInfo(entries, nhits, nmisses) == [cache |-> entries, hits |-> nhits, misses |-> nmisses]

\* a cache_clear that drops the entries and keeps the counters
cache_clear_entries_only(info) == [info EXCEPT !.cache = <<>>]

\* _cached_validate.cache_clear(): no entries, counters at zero
cache_clear(info) == CacheInfo(<<>>, 0, 0)

\* hits / (hits + misses) as the fraction <<numerator, denominator>>
Fraction(n, d) == <<n, d>>

Zero == Fraction(0, 1)

\* get_cache_stats() in the current state
get_cache_stats ==
    [hits |-> hits, misses |-> misses, size |-> Len(cache), maxsize |-> CacheMaxSize,
     hit_rate |-> IF hits + misses > 0 THEN Fraction(hits, hits + misses) ELSE Zero]

\* get_cache_stats() reads the cache's counters and changes nothing
GetCacheStats ==
    /\ get_cache_stats.size <= get_cache_stats.maxsize
    /\ UNCHANGED vars

\* clear_cache()
ClearCache ==
    /\ batch.phase \notin {"running", "unwinding"}
    /\ LET cleared == cache_clear(CacheInfo(cache, hits, misses))
       IN  /\ cache' = cleared.cache
           /\ hits' = cleared.hits
           /\ misses' = cleared.misses
    /\ valOp' = [NoValOp EXCEPT !.op = "clear_cache"]
    /\ UNCHANGED <<recency, dotInstalled, nValCalls>>
    /\ UNCHANGED notValidator

NextCache ==
    \/ \E code \in CacheSources : CachedValidate(code)
    \/ GetCacheStats
    \/ ClearCache

-----------------------------------------------------------------------------
(* scrapers/graphviz_gallery.py: main() and GraphvizGalleryScraper.scrape,  *)
(* common/metrics.py.  The network is the environment: a fetch fails or     *)
(* returns a page, a page holds up to MaxBlocks distinct DOT blocks.        *)

Systems == {"Linux", "Darwin", "Windows", "Java"}

\* GraphvizNotFoundError.__init__: the hint for platform.system()
InstallCmd(system) ==
    IF system = "Linux" THEN "sudo apt-get install graphviz"
    ELSE IF system = "Darwin" THEN "brew install graphviz"
    ELSE IF system = "Windows" THEN "choco install graphviz or download from graphviz.org"
    ELSE "See graphviz.org for installation instructions"

\* str(GraphvizNotFoundError())
NotFoundMessage(system) ==
    <<"Graphviz 'dot' command not found in PATH.", "LF", "Install with: ", InstallCmd(system)>>

\* GalleryExample: a DOT block and its position among the blocks of its page
Example(code, index) == [dot_code |-> code, index |-> index]

MaxBlocks == 2

\* the DOT blocks the gallery shows
GalleryCodes == {SrcGood, SrcWarn, SrcBad}

\* extract_example_content: the blocks of one page, without repetitions
\* (unique_codes), in the order of the page
Pages ==
    {page \in UNION {[1..n -> GalleryCodes] : n \in 1..MaxBlocks} :
        \A i, j \in 1..Len(page) : page[i] = page[j] => i = j}

\* for idx, code in enumerate(unique_codes): GalleryExample(..., index=idx)
Examples(page) == [i \in 1..Len(page) |-> Example(page[i], i - 1)]

\* the str of a DOT block whose runs are single characters
Text(code) == [i \in 1..Len(code) |-> code[i].c]

\* _process_example, lines 339-341: the record id
ExampleId(example) ==
    LET record_id == generate_id(example.dot_code, <<"graphviz", "-", "gallery">>)
    IN  IF example.index > 0
        THEN record_id \o <<"-", ToString(example.index)>>
        ELSE record_id

\* _process_example, lines 344-354: the DataRecord of a validated example
ExampleRecord(example, result) ==
    [id |-> ExampleId(example), source |-> <<"graphviz_gallery">>, source_url |-> <<"u">>,
     license |-> <<"EPL-2.0">>, task_type |-> <<"NL_TO_DOT">>, input_text |-> <<"t">>,
     output_dot |-> Text(example.dot_code), verification_status |-> to_schema_status(result),
     scraped_at |-> <<"2024-01-01T00:00:00Z">>, context_snippet |-> None]

\* (mutant) no example is turned away
ValidationFailedNever(result) == FALSE

\* _process_example, lines 327-334: `if not result.is_valid: ... return`
ValidationFailed(result) == ~result.is_valid

\* ScraperMetrics()
ScraperMetrics ==
    [total_found |-> 0, total_scraped |-> 0, validation_passed |-> 0, validation_failed |-> 0,
     duplicates_skipped |-> 0, examples_written |-> 0, finished |-> FALSE]

\* ScraperMetrics.increment(metric)
increment(metrics, metric) == [metrics EXCEPT ![metric] = @ + 1]

\* ScraperMetrics.finish()
finish(metrics) == [metrics EXCEPT !.finished = TRUE]

\* ScraperMetrics.pass_rate() < threshold, in whole numbers
PassRateBelow(metrics, threshold) ==
    LET total == metrics.validation_passed + metrics.validation_failed
    IN  IF total = 0 THEN 0 < threshold
        ELSE metrics.validation_passed * 100 < threshold * total

\* main(), lines 409-413: the exit status after scrape() has returned
ExitStatus(metrics) ==
    IF PassRateBelow(metrics, 98) /\ metrics.validation_passed > 0 THEN 1 ELSE 0

\* the process has not exited
NoStatus == -1

InitScraper ==
    scraper = [pc |-> "idle", system |-> "Linux", dry_run |-> FALSE, idx |-> 0, blocks |-> <<>>,
               metrics |-> ScraperMetrics, errors |-> <<>>, status |-> NoStatus]

\* main() up to scraper.scrape(): the scraper is constructed, and with it
\* the writer unless --dry-run is given
Main(dry_run) ==
    /\ scraper.pc = "idle"
    /\ scraper' = [scraper EXCEPT !.pc = "probe", !.dry_run = dry_run]
    /\ IF dry_run
       THEN UNCHANGED storeVars
       ELSE /\ existing_ids' = LoadExistingIds(file)
            /\ alive' = TRUE
            /\ storeOp' = StoreOp("construct", NoRecord, None, "returned", "None", 0)
            /\ UNCHANGED <<file, acked, rejected, nAppends, nCrashes, nIOErrors>>
    /\ UNCHANGED <<idVars, valVars, batchVars, threadVars, impl, schema>>

\* scrape(), lines 242-248: the probe.  GraphvizNotFoundError.__init__ reads
\* platform.system() when the exception is raised
Probe ==
    /\ scraper.pc = "probe"
    /\ ValidateDotCall(SrcProbe, 10, FALSE, TRUE, "png")
    /\ IF valOp'.outcome = "GraphvizNotFoundError"
       THEN \E system \in Systems :
                scraper' = [scraper EXCEPT !.pc = "scraped",
                                           !.system = system,
                                           !.errors = Append(@, NotFoundMessage(system)),
                                           !.metrics = finish(@)]
       ELSE scraper' = [scraper EXCEPT !.pc = "index"]
    /\ UNCHANGED <<dotInstalled, nValCalls>>
    /\ UNCHANGED <<storeVars, idVars, batchVars, threadVars, impl, schema>>

\* scrape(), lines 256-273: the gallery index
FetchIndex ==
    /\ scraper.pc = "index"
    /\ \/ scraper' = [scraper EXCEPT !.pc = "scraped",
                                     !.errors = Append(@, <<"Failed to fetch gallery index">>),
                                     !.metrics = finish(@)]
       \/ \E n \in 0..MaxPages :
              scraper' = [scraper EXCEPT
                              !.pc = IF n = 0 THEN "scraped" ELSE "pages",
                              !.metrics = IF n = 0 THEN finish([@ EXCEPT !.total_found = n])
                                          ELSE [@ EXCEPT !.total_found = n]]
    /\ UNCHANGED <<storeVars, idVars, valVars, batchVars, threadVars, impl, schema>>

\* the loop of scrape() goes on to the next page, or past the last one
NextPage(metrics) ==
    [scraper EXCEPT !.idx = @ + 1,
                    !.pc = IF scraper.idx + 1 = scraper.metrics.total_found
                           THEN "scraped" ELSE "pages",
                    !.metrics = IF scraper.idx + 1 = scraper.metrics.total_found
                                THEN finish(metrics) ELSE metrics]

\* an exception nobody catches ends the process with status 1
Uncaught == [scraper EXCEPT !.pc = "exited", !.status = 1]

\* the loop over the blocks of a page goes on to the next block, or past
\* the last one to the next page
NextBlock(metrics) ==
    IF Len(scraper.blocks) > 1
    THEN [scraper EXCEPT !.blocks = Tail(@), !.metrics = metrics]
    ELSE [NextPage(metrics) EXCEPT !.blocks = <<>>]

\* scrape(), lines 275-286: one page of the gallery is fetched and its DOT
\* blocks are extracted
ProcessPage ==
    /\ scraper.pc = "pages"
    /\ \/ \* the page could not be fetched, or holds no DOT block
          scraper' = NextPage(scraper.metrics)
       \/ \E page \in Pages :
              scraper' = [scraper EXCEPT !.pc = "blocks", !.blocks = Examples(page),
                                         !.metrics.total_scraped = @ + Len(page)]
    /\ UNCHANGED <<storeVars, idVars, valVars, batchVars, threadVars, impl, schema>>

\* _process_example(example), called by the loop of lines 289-290
ProcessExample ==
    /\ scraper.pc = "blocks"
    /\ LET example == Head(scraper.blocks)
           passed == increment(scraper.metrics, "validation_passed")
       IN  /\ ValidateDotCall(example.dot_code, 10, FALSE, TRUE, "png")
           /\ UNCHANGED <<dotInstalled, nValCalls>>
           /\ IF valOp'.outcome # "returned"
              THEN scraper' = Uncaught /\ UNCHANGED storeVars
              ELSE IF ValidationFailed(valOp'.result)
              THEN /\ scraper' = NextBlock(increment(scraper.metrics, "validation_failed"))
                   /\ UNCHANGED storeVars
              ELSE IF scraper.dry_run
              THEN /\ scraper' = NextBlock(increment(passed, "examples_written"))
                   /\ UNCHANGED storeVars
              ELSE /\ WriterAppend(ExampleRecord(example, valOp'.result))
                   /\ UNCHANGED nAppends
                   /\ scraper' =
                          IF storeOp'.outcome = "crashed"
                          THEN [scraper EXCEPT !.pc = "killed"]
                          ELSE IF storeOp'.outcome # "returned" THEN Uncaught
                          ELSE IF storeOp'.ret = "True"
                          THEN NextBlock(increment(passed, "examples_written"))
                          ELSE NextBlock(increment(passed, "duplicates_skipped"))
    /\ UNCHANGED <<idVars, batchVars, threadVars, impl, schema>>

\* main(), lines 407-413
MainExit ==
    /\ scraper.pc = "scraped"
    /\ scraper' = [scraper EXCEPT !.pc = "exited", !.status = ExitStatus(scraper.metrics)]
    /\ UNCHANGED <<storeVars, idVars, valVars, batchVars, threadVars, impl, schema>>

NextScraper ==
    \/ \E dry_run \in BOOLEAN : Main(dry_run)
    \/ Probe
    \/ FetchIndex
    \/ ProcessPage
    \/ ProcessExample
    \/ MainExit

-----------------------------------------------------------------------------
(* validation/dot_validator.py: _validate_impl step by step.  A call of    *)
(* validate_dot(dot_code, timeout, strict, use_cache=False, output_format) *)
(* on a source that passes the pre-checks, with the child processes of     *)
(* subprocess.run: what a child writes and how it exits is the child's     *)
(* business, and so is whether it exits before the timeout.                *)

ExitCodes == {0, 1, 139}

Stderrs ==
    {<<>>, <<"LF">>, <<"Warning: node A, port b unrecognized", "LF">>,
     <<"Error: syntax error in line 1", "LF">>}

ImplArgs ==
    {<<code, timeout, strict, fmt>> :
        code \in {SrcGood, SrcBad}, timeout \in {5, 10}, strict \in BOOLEAN, fmt \in {"png", "svg"}}

Child(cmd, state, returncode, stderr) ==
    [cmd |-> cmd,                \* the command line
     state |-> state,            \* "running", "exited" (and reaped), "killed" (and reaped)
     returncode |-> returncode, stderr |-> stderr]

Impl(pc, code, timeout, strict, fmt, children, expired, outcome, result) ==
    [pc |-> pc,                  \* "idle", "waiting", "timedout", "returned", "raised"
     dot_code |-> code, timeout |-> timeout, strict |-> strict, output_format |-> fmt,
     children |-> children,      \* the child processes the call started, in order
     expired |-> expired,        \* timeout seconds have passed since the compiler started
     outcome |-> outcome,        \* "returned" or the exception raised, once the call ended
     result |-> result]          \* the ValidationResult returned

InitImpl == impl = Impl("idle", <<>>, 0, FALSE, "none", <<>>, FALSE, "none", NoResult)

\* the child of subprocess.run(["dot", "-T...", "-o", null_device], ...)
Compiler == impl.children[Len(impl.children)]

\* subprocess.run leaves a child that takes too long running
AbandonChild(child) == child

\* subprocess.run on TimeoutExpired: process.kill(), then process.wait()
KillAndWait(child) ==
    IF child.state = "running" THEN [child EXCEPT !.state = "killed"] ELSE child

\* lines 130-151: shutil.which, the version query `dot -V` (a child of its
\* own, run to its end), and the start of the compiler
ImplCall(code, timeout, strict, fmt) ==
    /\ impl.pc \in {"idle", "returned", "raised"}
    /\ nValCalls < MaxValCalls
    /\ nValCalls' = nValCalls + 1
    /\ IF ~dotInstalled
       THEN impl' = Impl("raised", code, timeout, strict, fmt, <<>>, FALSE,
                         "GraphvizNotFoundError", NoResult)
       ELSE \/ impl' = Impl("waiting", code, timeout, strict, fmt,
                            <<Child(<<"dot", "-V">>, "exited", 0, CompilerVersion),
                              Child(<<"dot", "-T", fmt, "-o", "/dev/null">>, "running", 0, <<>>)>>,
                            FALSE, "none", NoResult)
            \/ \* the compiler cannot be started: OSError out of subprocess.run
               impl' = Impl("returned", code, timeout, strict, fmt,
                            <<Child(<<"dot", "-V">>, "exited", 0, CompilerVersion)>>,
                            FALSE, "returned", Classify(OSErrorRaised, timeout, strict, 1))
    /\ UNCHANGED dotInstalled
    /\ UNCHANGED notImpl

\* the compiler exits
ChildExit(returncode, stderr) ==
    /\ impl.pc = "waiting"
    /\ Compiler.state = "running"
    /\ impl' = [impl EXCEPT !.children[Len(impl.children)] =
                   Child(Compiler.cmd, "exited", returncode, stderr)]
    /\ UNCHANGED <<dotInstalled, nValCalls>>
    /\ UNCHANGED notImpl

\* timeout seconds pass while the compiler runs
TimerExpires ==
    /\ impl.pc = "waiting"
    /\ Compiler.state = "running"
    /\ ~impl.expired
    /\ impl' = [impl EXCEPT !.expired = TRUE]
    /\ UNCHANGED <<dotInstalled, nValCalls>>
    /\ UNCHANGED notImpl

\* communicate(timeout=...) raises TimeoutExpired; subprocess.run kills the
\* child, waits for it and raises again
ImplTimeout ==
    /\ impl.pc = "waiting"
    /\ impl.expired
    /\ impl' = [impl EXCEPT !.pc = "timedout",
                            !.children[Len(impl.children)] = KillAndWait(Compiler)]
    /\ UNCHANGED <<dotInstalled, nValCalls>>
    /\ UNCHANGED notImpl

\* lines 153-187: the result of the run is returned
ImplReturn ==
    /\ \/ impl.pc = "waiting" /\ Compiler.state = "exited" /\ ~impl.expired
       \/ impl.pc = "timedout"
    /\ impl' = [impl EXCEPT
                   !.pc = "returned",
                   !.outcome = "returned",
                   !.result = Classify(IF impl.pc = "timedout" THEN TimeoutExpired
                                       ELSE Exit(Compiler.returncode, Compiler.stderr),
                                       impl.timeout, impl.strict, 1)]
    /\ UNCHANGED <<dotInstalled, nValCalls>>
    /\ UNCHANGED notImpl

ImplSetDotInstalled ==
    /\ impl.pc \in {"idle", "returned", "raised"}
    /\ dotInstalled' = ~dotInstalled
    /\ UNCHANGED <<impl, nValCalls>>
    /\ UNCHANGED notImpl

NextImpl ==
    \/ ImplSetDotInstalled
    \/ \E a \in ImplArgs : ImplCall(a[1], a[2], a[3], a[4])
    \/ \E returncode \in ExitCodes, stderr \in Stderrs : ChildExit(returncode, stderr)
    \/ TimerExpires
    \/ ImplTimeout
    \/ ImplReturn

-----------------------------------------------------------------------------
(* validation/dot_validator.py: validate_batch *)

BatchSources == {SrcEmpty, SrcGood, SrcBad}

\* the lists of at most n inputs
BatchInputs(n) == UNION {[1..k -> BatchSources] : k \in 0..n}

\* max_workers: the default of 4, which lets every input of a batch of
\* this size run at once, so that every completion order occurs
WorkerCounts == {4}

\* the keyword arguments the batch passes on to validate_dot: the defaults,
\* with or without the cache
BatchTimeout == 10
BatchStrict == FALSE
BatchFormat == "png"

Future(state, code, outcome, result) ==
    [state |-> state,       \* "queued", "running", "done" (returned or raised), "collected"
     code |-> code,         \* the input validate_dot was submitted with
     outcome |-> outcome,   \* "returned" or the exception raised, once done
     result |-> result]     \* the ValidationResult, once done

Batch(phase, dot_codes, parallel, max_workers, use_cache, results, completed, progress, order) ==
    [phase |-> phase,       \* "idle", "running", "unwinding", "returned", "raised"
     dot_codes |-> dot_codes, parallel |-> parallel, max_workers |-> max_workers,
     use_cache |-> use_cache,
     results |-> results,      \* the local list results
     completed |-> completed,  \* inputs dealt with by the caller's thread
     progress |-> progress,    \* the calls of progress_callback so far
     order |-> order]          \* the indices of the results, in the order they were stored

InitBatch ==
    /\ batch = Batch("idle", <<>>, FALSE, 1, FALSE, <<>>, 0, <<>>, <<>>)
    /\ futures = <<>>

\* list[idx] = value, idx counted from 1; that the slot is the next free one
SetItemNextFree(list, idx, value) ==
    [list EXCEPT ![CHOOSE i \in 1..Len(list) :
                       /\ list[i] = NoResult
                       /\ \A j \in 1..(i - 1) : list[j] # NoResult] = value]

\* list[idx] = value, idx counted from 1
SetItem(list, idx, value) == [list EXCEPT ![idx] = value]

\* (mutant) the position of the input is reported as the progress
CompletedAsIndex(completed, idx) == idx

\* completed += 1 (line 230), whatever the position idx of the input
Completed(completed, idx) == completed + 1

\* validate_batch(dot_codes, parallel, max_workers, progress_callback,
\* use_cache=...): line 217, and with parallel the submission of every input
ValidateBatch(dot_codes, parallel, max_workers, use_cache) ==
    /\ batch.phase \in {"idle", "returned", "raised"}
    /\ nValCalls + Len(dot_codes) <= MaxValCalls
    /\ batch' = Batch("running", dot_codes, parallel, max_workers, use_cache,
                      [i \in 1..Len(dot_codes) |-> NoResult], 0, <<>>, <<>>)
    /\ futures' = [i \in 1..Len(dot_codes) |-> Future("queued", dot_codes[i], "none", NoResult)]
    /\ UNCHANGED valVars
    /\ UNCHANGED notBatch

\* sequential mode, one turn of the loop of lines 235-239: the input is
\* validated on the caller's thread; an exception ends validate_batch
SequentialStep ==
    LET idx == batch.completed + 1
    IN  /\ batch.phase = "running"
        /\ ~batch.parallel
        /\ idx <= Len(batch.dot_codes)
        /\ ValidateDotCall(batch.dot_codes[idx], BatchTimeout, BatchStrict,
                           batch.use_cache, BatchFormat)
        /\ nValCalls' = nValCalls + 1
        /\ futures' = [futures EXCEPT ![idx] =
                          Future("collected", batch.dot_codes[idx], valOp'.outcome, valOp'.result)]
        /\ batch' = IF valOp'.outcome = "returned"
                    THEN [batch EXCEPT !.results = SetItem(batch.results, idx, valOp'.result),
                                       !.completed = idx,
                                       !.progress = Append(batch.progress,
                                                           <<idx, Len(batch.dot_codes)>>),
                                       !.order = Append(batch.order, idx)]
                    ELSE [batch EXCEPT !.phase = "raised"]
        /\ UNCHANGED dotInstalled
        /\ UNCHANGED notBatch

Running == {i \in 1..Len(futures) : futures[i].state = "running"}

Unfinished == {i \in 1..Len(futures) : futures[i].state \in {"queued", "running"}}

\* parallel mode: a worker thread takes the oldest queued call and runs
\* validate_dot up to the compiler run; the pre-checks and a cache hit end
\* the call at once
WorkerBegin(i) ==
    LET code == futures[i].code
        key == CacheKey(code, BatchTimeout, BatchStrict)
    IN  /\ batch.phase \in {"running", "unwinding"}
        /\ batch.parallel
        /\ i \in 1..Len(futures)
        /\ futures[i].state = "queued"
        /\ \A j \in 1..(i - 1) : futures[j].state # "queued"
        /\ Cardinality(Running) < batch.max_workers
        /\ nValCalls' = nValCalls + 1
        /\ IF ~IsBlank(code) /\ ~Encodable(code)
           THEN /\ futures' = [futures EXCEPT ![i] =
                                  Future("done", code, "UnicodeEncodeError", NoResult)]
                /\ valOp' = ValOp(code, BatchTimeout, BatchStrict, batch.use_cache, BatchFormat,
                                  ImplRun("UnicodeEncodeError", NoResult, 0, "none"), FALSE)
                /\ UNCHANGED cacheVars
           ELSE IF PreCheck(code) # {}
           THEN \E rejection \in PreCheck(code) :
                    /\ futures' = [futures EXCEPT ![i] = Future("done", code, "returned", rejection)]
                    /\ valOp' = ValOp(code, BatchTimeout, BatchStrict, batch.use_cache, BatchFormat,
                                      ImplRun("returned", rejection, 0, "none"), FALSE)
                    /\ UNCHANGED cacheVars
           ELSE IF batch.use_cache /\ CacheHas(cache, key)
           THEN /\ hits' = hits + 1
                /\ cache' = CacheTouch(cache, key)
                /\ recency' = Used(recency, key)
                /\ futures' = [futures EXCEPT ![i] =
                                  Future("done", code, "returned", CacheGet(cache, key))]
                /\ valOp' = ValOp(code, BatchTimeout, BatchStrict, batch.use_cache, BatchFormat,
                                  ImplRun("returned", CacheGet(cache, key), 0, "none"), TRUE)
                /\ UNCHANGED misses
           ELSE /\ misses' = IF batch.use_cache THEN misses + 1 ELSE misses
                /\ futures' = [futures EXCEPT ![i].state = "running"]
                /\ UNCHANGED <<cache, hits, recency, valOp>>
        /\ UNCHANGED <<dotInstalled, batch>>
        /\ UNCHANGED notBatch

\* the worker's _validate_impl ends; behind the cache its result is stored
WorkerEnd(i) ==
    LET code == futures[i].code
        key == CacheKey(code, BatchTimeout, BatchStrict)
    IN  /\ i \in 1..Len(futures)
        /\ futures[i].state = "running"
        /\ \E run \in ValidateImpl(code, BatchTimeout, BatchStrict, BatchFormat) :
               /\ cache' = IF batch.use_cache /\ run.outcome = "returned"
                           THEN CacheStore(cache, key, run.result)
                           ELSE cache
               /\ recency' = IF batch.use_cache /\ run.outcome = "returned" /\ ~CacheHas(cache, key)
                             THEN Used(recency, key)
                             ELSE recency
               /\ futures' = [futures EXCEPT ![i] = Future("done", code, run.outcome, run.result)]
               /\ valOp' = ValOp(code, BatchTimeout, BatchStrict, batch.use_cache, BatchFormat,
                                 run, FALSE)
        /\ UNCHANGED <<hits, misses, dotInstalled, nValCalls, batch>>
        /\ UNCHANGED notBatch

\* parallel mode, one turn of the loop of lines 227-233 on the caller's
\* thread: as_completed yields a finished future, in no particular order;
\* future.result() returns its result or raises its exception
Collect(i) ==
    /\ batch.phase = "running"
    /\ batch.parallel
    /\ i \in 1..Len(futures)
    /\ futures[i].state = "done"
    /\ futures' = [futures EXCEPT ![i].state = "collected"]
    /\ batch' = IF futures[i].outcome = "returned"
                THEN [batch EXCEPT !.results = SetItem(batch.results, i, futures[i].result),
                                   !.completed = Completed(batch.completed, i),
                                   !.progress = Append(batch.progress,
                                                       <<Completed(batch.completed, i),
                                                         Len(batch.dot_codes)>>),
                                   !.order = Append(batch.order, i)]
                ELSE [batch EXCEPT !.phase = "unwinding"]
    /\ UNCHANGED valVars
    /\ UNCHANGED notBatch

\* the exception leaves the with block: the executor's shutdown has waited
\* for every submitted call
Unwound ==
    /\ batch.phase = "unwinding"
    /\ Unfinished = {}
    /\ batch' = [batch EXCEPT !.phase = "raised"]
    /\ UNCHANGED futures
    /\ UNCHANGED valVars
    /\ UNCHANGED notBatch

\* return results (line 241)
BatchReturn ==
    /\ batch.phase = "running"
    /\ batch.completed = Len(batch.dot_codes)
    /\ batch' = [batch EXCEPT !.phase = "returned"]
    /\ UNCHANGED futures
    /\ UNCHANGED valVars
    /\ UNCHANGED notBatch

NextBatch ==
    \/ SetDotInstalled
    \/ \E dot_codes \in BatchInputs(MaxValCalls), parallel \in BOOLEAN,
          max_workers \in WorkerCounts, use_cache \in BOOLEAN :
           ValidateBatch(dot_codes, parallel, max_workers, use_cache)
    \/ SequentialStep
    \/ \E i \in 1..MaxValCalls : WorkerBegin(i)
    \/ \E i \in 1..MaxValCalls : WorkerEnd(i)
    \/ \E i \in 1..MaxValCalls : Collect(i)
    \/ Unwound
    \/ BatchReturn

-----------------------------------------------------------------------------
(* Specifications: one for each component, the others idle *)

InitIdle == InitIdsIdle /\ InitValidatorIdle /\ InitBatch /\ InitThreads /\ InitImpl /\ InitScraper
    /\ InitSchema

InitSpecStore == InitStore /\ InitIdle

SpecStore == InitSpecStore /\ [][NextStore]_vars

InitSpecIds ==
    InitStore /\ InitIds /\ InitValidatorIdle /\ InitBatch /\ InitThreads /\ InitImpl /\ InitScraper
    /\ InitSchema

SpecIds == InitSpecIds /\ [][NextIds]_vars

InitSpecValidator ==
    InitStore /\ InitHashes /\ InitValidator /\ InitBatch /\ InitThreads /\ InitImpl /\ InitScraper
    /\ InitSchema

SpecValidator == InitSpecValidator /\ [][NextValidator]_vars

SpecBatch == InitSpecValidator /\ [][NextBatch]_vars

SpecCache == InitSpecValidator /\ [][NextCache]_vars

SpecScraper == InitSpecValidator /\ [][NextScraper]_vars

SpecSchema == InitSpecStore /\ [][NextSchema]_vars

SpecThreads == InitSpecStore /\ [][NextThreads]_vars

\* the program takes its steps, and time passes while a child runs
SpecImpl ==
    /\ InitSpecValidator
    /\ [][NextImpl]_vars
    /\ WF_vars(ImplTimeout) /\ WF_vars(ImplReturn) /\ WF_vars(TimerExpires)

-----------------------------------------------------------------------------
(* Claims about the record store *)

\* the file f2 is the file f with exactly one newline-terminated line added
AddsOneLine(f, f2) ==
    /\ Len(f2) > Len(f)
    /\ SubSeq(f2, 1, Len(f)) = f
    /\ f2[Len(f2)] = "LF"
    /\ Cardinality({i \in (Len(f) + 1)..Len(f2) : f2[i] = "LF"}) = 1

\* C1: Dedup idempotence.  Whenever append(r) returns: if r.id was not yet
\* known it returns True, adds exactly one line to the file and
\* count_existing() grows by one; if r.id was known (whatever the other
\* fields of r are) it returns False and leaves file and count unchanged.
C1_DedupIdempotence ==
    [][(storeOp'.op = "append" /\ nAppends' = nAppends + 1 /\ storeOp'.outcome = "returned")
       => IF storeOp'.rec.id \in existing_ids
          THEN /\ storeOp'.ret = "False"
               /\ file' = file
               /\ CountExistingOf(existing_ids') = CountExistingOf(existing_ids)
          ELSE /\ storeOp'.ret = "True"
               /\ AddsOneLine(file, file')
               /\ storeOp'.rec.id \in existing_ids'
               /\ CountExistingOf(existing_ids') = CountExistingOf(existing_ids) + 1]_vars

\* RecA1 was appended (True, one line), then RecA2 with the same id (False)
C1_Witness ==
    /\ storeOp.op = "append"
    /\ storeOp.rec = RecA2
    /\ storeOp.ret = "False"
    /\ file = LineBytes(RecA1)
    /\ CountExistingOf(existing_ids) = 1

\* the lines of the bytes f (without their newline), the last one included
\* when it has no newline
ByteLines(f) ==
    {SubSeq(f, s, (IF \E e \in s..Len(f) : f[e] = "LF"
                   THEN (CHOOSE e \in s..Len(f) :
                            f[e] = "LF" /\ \A j \in s..(e - 1) : f[j] # "LF")
                   ELSE Len(f) + 1) - 1) :
        s \in {i \in 1..Len(f) : i = 1 \/ f[i - 1] = "LF"}}

\* the ids of the valid record lines of the file: the lines that are the
\* JSON text of a record
ValidLineIds(f) ==
    {r.id : r \in {q \in Records : Utf8Encode(ToJson(q)) \in ByteLines(f)}}

\* C2: Resume safety.  A JSONLWriter constructed on a file knows exactly the
\* ids of the file's valid record lines, whatever malformed lines (a
\* truncated trailing line cut at any byte position) the file holds beside them.
C2_ResumeSafety ==
    storeOp.op = "construct" => existing_ids = ValidLineIds(file)

\* C3: Crash safety.  In a run of appends, crashes inside an append and
\* re-constructions (no I/O failure), a freshly constructed store knows the id
\* of every record whose append returned True.
C3_CrashSafety ==
    (storeOp.op = "construct" /\ nIOErrors = 0) => acked \subseteq existing_ids

\* the schema invariants of a DataRecord (all fields but context_snippet
\* required, the two enumerations, a timestamp that parses)
SchemaInvariant(r) ==
    /\ \A f \in {"id", "source", "source_url", "license", "input_text", "output_dot"} :
           r[f] # <<>> /\ r[f] # None
    /\ r.task_type \in {<<"NL_TO_DOT">>, <<"CODE_TO_DOT">>}
    /\ r.verification_status \in {<<"passed_compiler">>, <<"failed_compiler">>}
    /\ r.scraped_at \in IsoTimestamps

\* C10: Schema violation on append.  append of a record that violates the
\* schema and whose id is not known raises ValueError, writes nothing and
\* leaves existing_ids unchanged; a later append of a record with that id
\* that satisfies the schema, when it returns, returns True and adds the id.
C10_SchemaViolationRaises ==
    [][(storeOp'.op = "append" /\ nAppends' = nAppends + 1)
       => /\ (storeOp'.rec.id \notin existing_ids /\ ~SchemaInvariant(storeOp'.rec))
             => /\ storeOp'.outcome = "ValueError"
                /\ file' = file
                /\ existing_ids' = existing_ids
          /\ (/\ storeOp'.rec.id \in rejected
              /\ storeOp'.rec.id \notin existing_ids
              /\ SchemaInvariant(storeOp'.rec)
              /\ storeOp'.outcome = "returned")
             => /\ storeOp'.ret = "True"
                /\ storeOp'.rec.id \in existing_ids']_vars

\* RecBBad was refused, then the corrected RecB was appended
C10_Witness ==
    /\ storeOp.op = "append"
    /\ storeOp.rec = RecB
    /\ storeOp.ret = "True"
    /\ RecBBad.id \in rejected
    /\ file = LineBytes(RecB)

\* the record violates the schema in the field
FieldViolated(r, field) ==
    IF field = "task_type" THEN r.task_type \notin {<<"NL_TO_DOT">>, <<"CODE_TO_DOT">>}
    ELSE IF field = "verification_status"
    THEN r.verification_status \notin {<<"passed_compiler">>, <<"failed_compiler">>}
    ELSE IF field = "scraped_at" THEN r.scraped_at \notin IsoTimestamps
    ELSE r[field] = <<>> \/ r[field] = None

\* the field an error message of validate names
NamedField(message) ==
    CASE message = "id cannot be empty" -> "id"
      [] message = "source cannot be empty" -> "source"
      [] message = "source_url cannot be empty" -> "source_url"
      [] message = "license cannot be empty" -> "license"
      [] message = "task_type must be NL_TO_DOT or CODE_TO_DOT" -> "task_type"
      [] message = "input_text cannot be empty" -> "input_text"
      [] message = "output_dot cannot be empty" -> "output_dot"
      [] message = "verification_status must be passed_compiler or failed_compiler"
            -> "verification_status"
      [] message = "scraped_at must be valid ISO 8601 timestamp" -> "scraped_at"
      [] OTHER -> "no field"

\* the order in which the claim lists the conditions
ListedOrder ==
    <<"id", "source", "source_url", "license", "input_text", "output_dot",
      "task_type", "verification_status", "scraped_at">>

\* the order of the fields in the declaration of DataRecord, context_snippet left out
DeclaredOrder ==
    <<"id", "source", "source_url", "license", "task_type", "input_text",
      "output_dot", "verification_status", "scraped_at">>

\* the first field of the order the record violates the schema in
FirstViolated(r, order) ==
    order[CHOOSE i \in 1..Len(order) :
              /\ FieldViolated(r, order[i])
              /\ \A j \in 1..(i - 1) : ~FieldViolated(r, order[j])]

\* validate has returned (True, None) for exactly the records that satisfy
\* the schema, and for the others (False, message), the message naming the
\* first violated field of the order
ValidateAgrees(order) ==
    schema.op = "validate"
    => LET r == schema.rec
           is_valid == schema.result[1]
           error == schema.result[2]
       IN  /\ is_valid <=> SchemaInvariant(r)
           /\ is_valid => error = NoMessage
           /\ ~is_valid => NamedField(error) = FirstViolated(r, order)

C22_DuplicateBeforeSchema ==
    [][(storeOp'.op = "append" /\ nAppends' = nAppends + 1)
       => /\ storeOp'.rec.id \in existing_ids
             => /\ storeOp'.outcome = "returned"
                /\ storeOp'.ret = "False"
                /\ file' = file
                /\ existing_ids' = existing_ids
                /\ rejected' = rejected
          /\ storeOp'.outcome = "ValueError" => storeOp'.rec.id \notin existing_ids]_vars

\* RecB was appended, then RecBBad, which has its id and violates the
\* schema: False, nothing rejected, one line
C22_Witness ==
    /\ storeOp.op = "append" /\ storeOp.rec = RecBBad
    /\ storeOp.outcome = "returned" /\ storeOp.ret = "False"
    /\ ~SchemaInvariant(storeOp.rec)
    /\ rejected = {}
    /\ file = LineBytes(RecB)

\* the places of the file where the line of a record with this id starts
LineStartsOfId(f, record_id) ==
    {start \in {i \in 1..Len(f) : i = 1 \/ f[i - 1] = "LF"} :
        \E r \in Records :
            /\ r.id = record_id
            /\ start + Len(LineBytes(r)) - 1 <= Len(f)
            /\ SubSeq(f, start, start + Len(LineBytes(r)) - 1) = LineBytes(r)}

\* existing_ids is the set of ids of the parseable lines of the file, and no
\* id has two lines
IndexAgreesWithFile(ids, f) ==
    /\ ids = ValidLineIds(f)
    /\ \A record_id \in RecordIds : Cardinality(LineStartsOfId(f, record_id)) <= 1

\* C30: Index/file agreement.  For one JSONLWriter instance that is the only
\* writer of its file, after construction and after any sequence of append,
\* is_duplicate and count_existing calls (with no crash), existing_ids equals
\* the set of id values of the parseable lines of the file, and the file
\* holds no two lines with the same id.  Stated step by step: a call on the
\* instance that starts in agreement ends in agreement.
C30_IndexFileAgreement ==
    [][(/\ alive /\ alive' /\ nCrashes' = 0
        /\ storeOp'.op # "construct"
        /\ IndexAgreesWithFile(existing_ids, file))
          => IndexAgreesWithFile(existing_ids', file')]_vars

\* C11: I/O failure on append.  When open() or the write fails, append lets
\* an I/O error out to its caller, returning neither True nor False, and does
\* not add the record's id: is_duplicate(id) is still False and
\* count_existing() is what it was.
C11_IOFailurePropagates ==
    [][(storeOp'.op = "append" /\ nAppends' = nAppends + 1 /\ nIOErrors' = nIOErrors + 1)
       => /\ storeOp'.outcome = "IOError"
          /\ storeOp'.ret \in {RaisedIOError(e) : e \in IOErrors}
          /\ storeOp'.ret \notin {"True", "False"}
          /\ ~IsDuplicate(existing_ids, storeOp'.id)
          /\ ~IsDuplicate(existing_ids', storeOp'.id)
          /\ CountExistingOf(existing_ids') = CountExistingOf(existing_ids)
          /\ existing_ids' = existing_ids
          /\ alive']_vars

\* after an append of RecA1 that returned True, the disk was full in the
\* middle of the line of RecB
C11_Witness ==
    /\ storeOp.op = "append" /\ storeOp.outcome = "IOError"
    /\ storeOp.ret = "Disk full, cannot write to output_path"
    /\ storeOp.rec = RecB
    /\ existing_ids = {RecA1.id}
    /\ Len(file) > Len(LineBytes(RecA1))

\* C20: Append-only file.  No operation of JSONLWriter (construction,
\* is_duplicate, count_existing, append in any outcome) shortens the file or
\* changes bytes already in it: the content before is a prefix of the content
\* after; an append that returns True extends it by the bytes of exactly one
\* newline-terminated line, and one that returns False or raises ValueError
\* by nothing.
C20_AppendOnlyFile ==
    [][/\ Len(file') >= Len(file)
       /\ SubSeq(file', 1, Len(file)) = file
       /\ (storeOp'.op = "append" /\ nAppends' = nAppends + 1 /\ storeOp'.ret = "True")
          => /\ AddsOneLine(file, file')
             /\ file' = file \o LineBytes(storeOp'.rec)
       /\ (storeOp'.op # "append" \/ storeOp'.ret = "False" \/ storeOp'.outcome = "ValueError")
          => file' = file]_vars

\* an append of RecB that returned True after one of RecA1 that did: the
\* line of RecA1 is still the head of the file
C20_Witness ==
    /\ storeOp.op = "append" /\ storeOp.rec = RecB /\ storeOp.ret = "True"
    /\ nAppends = 2
    /\ file = LineBytes(RecA1) \o LineBytes(RecB)
    /\ existing_ids = {RecA1.id, RecB.id}

\* C12: Atomic append under threads.  Concurrent calls of append on one
\* instance behave as if one ran after the other: once every call has ended
\* the file consists of whole lines of records, and of the calls with one id
\* exactly one returned True and exactly one line with that id was written.
C12_AtomicAppend ==
    (\A t \in Threads : thr[t].pc = "idle")
    => /\ ByteLines(file) \subseteq {Utf8Encode(ToJson(r)) : r \in Records}
       /\ \A id \in RecordIds :
              /\ trueCalls[id] <= 1
              /\ Cardinality({i \in 1..Len(file) :
                                 /\ i = 1 \/ file[i - 1] = "LF"
                                 /\ \E r \in Records :
                                        /\ r.id = id
                                        /\ i + Len(LineBytes(r)) - 1 <= Len(file)
                                        /\ SubSeq(file, i, i + Len(LineBytes(r)) - 1) = LineBytes(r)})
                 <= 1

-----------------------------------------------------------------------------
(* Claims about the id generator *)

\* C8: Id round-trip.  The hash extracted from generate_id(s, p) is the
\* 16-character content hash, the same that is extracted from
\* generate_id(s, ""), for every prefix p.
C8_IdRoundTrip ==
    idOp.op = "extract_hash_from_id"
    => /\ idOp.result = SubSeq(sha256[idOp.content], 1, ShortHashLen)
       /\ idOp.result = extract_hash_from_id(generate_id(idOp.content, <<>>))

\* C9: generate_id is a function of (content, prefix) alone and changes no
\* state: equal arguments gave equal ids in all calls so far; the id is the
\* prefix, "-" and h for a non-empty prefix and h alone otherwise, h the first
\* 16 hex characters of the digest; with one prefix, contents whose short
\* digests differ got different ids.
C9_GenerateIdFunction ==
    /\ \A t \in idLog :
           LET h == [i \in 1..ShortHashLen |-> sha256[t[1]][i]]
           IN  t[3] = IF t[2] = <<>> THEN h ELSE t[2] \o <<"-">> \o h
    /\ \A t, u \in idLog :
           /\ (t[1] = u[1] /\ t[2] = u[2]) => t[3] = u[3]
           /\ (t[2] = u[2]
               /\ (\E i \in 1..ShortHashLen : sha256[t[1]][i] # sha256[u[1]][i]))
              => t[3] # u[3]
    /\ idOp.op = "generate_id" => <<idOp.content, idOp.prefix, idOp.result>> \in idLog
    /\ storeVars = <<<<>>, {}, FALSE, StoreOp("none", NoRecord, None, "none", "None", 0),
                     {}, {}, 0, 0, 0>>

\* two contents with different short digests got ids with the same prefix, and
\* an id without prefix was generated
C9_Witness ==
    /\ \E t, u \in idLog :
           /\ t[2] = u[2] /\ t[2] # <<>> /\ t[1] # u[1]
           /\ \E i \in 1..ShortHashLen : sha256[t[1]][i] # sha256[u[1]][i]
    /\ \E t \in idLog : t[2] = <<>>
    /\ nIdCalls = 3

-----------------------------------------------------------------------------
(* Claims about the validator *)

MsgEmpty == <<"Empty DOT code provided">>
MsgSizeLimit == <<"DOT code exceeds maximum size limit (10MB)">>

\* the step is a call of validate_dot from its start to its end
ValidateDotStep == nValCalls' = nValCalls + 1 /\ valOp'.op = "validate_dot"

\* C4: Cache correctness.  Of two successive calls of validate_dot with
\* use_cache=True on one source that passes the pre-checks, with the same
\* timeout and strict, that both return, the second returns the is_valid and
\* error_message of the first, adds one to the hits and runs no compiler.
C4_CacheCorrectness ==
    [][(/\ ValidateDotStep
        /\ valOp.op = "validate_dot" /\ valOp.use_cache /\ valOp.outcome = "returned"
        /\ valOp.dot_code \in {SrcGood, SrcWarn, SrcBad, SrcLimit}
        /\ valOp'.use_cache /\ valOp'.outcome = "returned"
        /\ valOp'.dot_code = valOp.dot_code
        /\ valOp'.timeout = valOp.timeout /\ valOp'.strict = valOp.strict)
       => /\ valOp'.result.is_valid = valOp.result.is_valid
          /\ valOp'.result.error_message = valOp.result.error_message
          /\ hits' = hits + 1
          /\ misses' = misses
          /\ valOp'.compiled = 0]_vars

\* the second of two such calls returned the cached result of a run that
\* timed out, while the compiler was absent
C4_Witness ==
    /\ nValCalls = 2 /\ hits = 1 /\ misses = 1
    /\ valOp.hit /\ valOp.use_cache /\ ~valOp.dot_found
    /\ valOp.dot_code = SrcGood
    /\ valOp.result.error_message = <<"Compilation timeout after ", "10", " seconds">>

\* the cache holds an entry made for the content, the timeout and strict
EntryFor(c, code, timeout, strict) ==
    \E i \in 1..Len(c) :
        c[i].key[2] = code /\ c[i].key[3] = timeout /\ c[i].key[4] = strict

\* C23: Cache key.  A call of validate_dot with use_cache=True on a source
\* that passes the pre-checks is a hit exactly when the cache holds an entry
\* for the same (content, timeout, strict); otherwise it is a miss that runs
\* the compiler (when there is one), also when an entry for the same content
\* with another timeout or another strict is present.  So the result
\* returned was computed with the strict and the timeout of the call: a
\* source that compiles with a warning is valid exactly when strict is off,
\* and a timeout message states the timeout of the call.
C23_CacheKey ==
    [][(/\ ValidateDotStep
        /\ valOp'.use_cache
        /\ valOp'.dot_code \in {SrcGood, SrcWarn, SrcBad, SrcLimit})
       => /\ valOp'.hit <=> EntryFor(cache, valOp'.dot_code, valOp'.timeout, valOp'.strict)
          /\ valOp'.hit => /\ valOp'.outcome = "returned"
                           /\ valOp'.compiled = 0
                           /\ hits' = hits + 1 /\ misses' = misses
          /\ ~valOp'.hit => /\ misses' = misses + 1 /\ hits' = hits
                            /\ dotInstalled => valOp'.compiled = 1
          /\ (valOp'.outcome = "returned" /\ valOp'.dot_code = SrcWarn)
             => (valOp'.result.is_valid <=> ~valOp'.strict)
          /\ (valOp'.outcome = "returned" /\ valOp'.dot_code = SrcGood
              /\ ~valOp'.result.is_valid
              /\ valOp'.result.error_message[1] = "Compilation timeout after ")
             => valOp'.result.error_message[2] = ToString(valOp'.timeout)]_vars

\* SrcWarn was validated with strict off (valid, stored) and then with
\* strict on: a miss, a compiler run, an invalid result, two entries
C23_Witness ==
    /\ nValCalls = 2 /\ hits = 0 /\ misses = 2
    /\ valOp.dot_code = SrcWarn /\ valOp.strict /\ valOp.use_cache
    /\ ~valOp.hit /\ valOp.compiled = 1
    /\ ~valOp.result.is_valid
    /\ Len(cache) = 2
    /\ cache[1].key[2] = SrcWarn /\ ~cache[1].key[4] /\ cache[1].result.is_valid

\* C24: The cache does not change what is validated.  A call of validate_dot
\* that runs the compiler, with use_cache=True on a key not yet stored as
\* with use_cache=False, runs it once and asks it for the output format the
\* caller requested.
C24_CacheKeepsFormat ==
    (valOp.op = "validate_dot" /\ valOp.outcome = "returned" /\ ~valOp.hit /\ valOp.compiled > 0)
    => /\ valOp.compiled = 1
       /\ valOp.format_run = valOp.output_format

C13_FailuresAreData ==
    (valOp.op = "validate_dot" /\ valOp.dot_found)
    => /\ valOp.outcome = "returned"
       /\ valOp.dot_code \notin {SrcGood, SrcWarn} => ~valOp.result.is_valid

-----------------------------------------------------------------------------
(* Claims about one run of the compiler *)

\* the call returned the classification of a compiler run that ended by itself
ReturnedFromExit ==
    /\ impl.pc = "returned"
    /\ Len(impl.children) = 2
    /\ Compiler.state = "exited"
    /\ ~impl.expired

\* C14: Outcome classification.  The result of a compiler run that exited is
\* a function of (exit code, stderr, strict): exit code 0 with strict off or
\* stderr empty is valid; exit code 0 with strict on and stderr non-empty is
\* invalid with the warnings-escalated message; a non-zero exit code is
\* invalid with the compiler's stderr as message, or 'exit code N' when stderr
\* is empty, and that message is never empty.
C14_OutcomeClassification ==
    ReturnedFromExit
    => LET rc == Compiler.returncode
           stderr == Compiler.stderr
           r == impl.result
       IN  /\ (rc = 0 /\ (~impl.strict \/ stderr = <<>>))
              => (r.is_valid /\ r.error_message = None)
           /\ (rc = 0 /\ impl.strict /\ stderr # <<>>)
              => /\ ~r.is_valid
                 /\ r.error_message =
                        <<"Warnings treated as errors (strict mode): ">> \o Strip(stderr)
           /\ rc # 0
              => /\ ~r.is_valid
                 /\ r.error_message =
                        IF stderr # <<>> THEN Strip(stderr)
                        ELSE <<"Compilation failed with exit code ", ToString(rc)>>
                 /\ r.error_message # <<>>

\* C18: ValidationResult invariant.  Every result that validate_dot returns
\* from a compiler run, a timeout or an unexpected error has error_message
\* set (not None and not empty) if and only if is_valid is false.
C18_ResultInvariant ==
    impl.pc = "returned"
    => ((impl.result.error_message # None /\ impl.result.error_message # <<>>)
           <=> ~impl.result.is_valid)

\* C27: Process count per compiler run.  A validation that reaches the
\* compiler has started exactly one process when it returns, the compile
\* itself: no version query (`dot -V`) is run for the call, and a run that
\* failed or timed out is not tried again.
C27_OneProcessPerRun ==
    (impl.pc = "returned" /\ \E i \in 1..Len(impl.children) : impl.children[i].cmd[2] = "-T")
    => /\ Len(impl.children) = 1
       /\ impl.children[1].cmd[2] = "-T"

\* the call has returned the result of a run that took too long
ReturnedTimeout ==
    /\ impl.pc = "returned"
    /\ ~impl.result.is_valid
    /\ impl.result.error_message =
           <<"Compilation timeout after ", ToString(impl.timeout), " seconds">>
    /\ \A i \in 1..Len(impl.children) : impl.children[i].state # "running"
    /\ Cardinality({i \in 1..Len(impl.children) : impl.children[i].cmd[2] = "-T"}) = 1

\* C15: Timeout handling.  When the compiler has not exited within timeout
\* seconds, the call eventually returns an invalid result whose message
\* states the timeout; when it returns, no child process it started is still
\* running, and the compiler was started once.
C15_TimeoutHandling ==
    /\ []((impl.pc = "returned" /\ impl.expired) => ReturnedTimeout)
    /\ ((impl.pc = "waiting" /\ impl.expired) ~> ReturnedTimeout)

\* the timeout of 5 seconds passed, the compiler was killed, the call returned
C15_Witness ==
    /\ impl.pc = "returned" /\ impl.expired
    /\ Compiler.state = "killed"
    /\ impl.result.error_message = <<"Compilation timeout after ", "5", " seconds">>

-----------------------------------------------------------------------------
(* Claims about the cache *)

CachedKeys(c) == {c[i].key : i \in 1..Len(c)}

\* of the keys in the cache, the one whose last use is the oldest
LeastRecentlyUsed(c, order) ==
    CHOOSE k \in CachedKeys(c) :
        \A j \in CachedKeys(c) \ {k} :
            \E m, n \in 1..Len(order) : order[m] = k /\ order[n] = j /\ m < n

\* C16: Bounded LRU cache.  The cache never holds more entries than its
\* maximum, and no key twice; when a new key is inserted into a full cache,
\* exactly one entry leaves it, the one least recently used, an insertion and
\* a hit both being uses.
C16_BoundedLRU ==
    [][/\ Len(cache') <= CacheMaxSize
       /\ Cardinality(CachedKeys(cache')) = Len(cache')
       /\ (Len(cache) = CacheMaxSize /\ CachedKeys(cache') \ CachedKeys(cache) # {})
          => /\ Len(cache') = CacheMaxSize
             /\ \E new \in CachedKeys(cache') \ CachedKeys(cache) :
                    /\ new = CacheKey(valOp'.dot_code, valOp'.timeout, valOp'.strict)
                    /\ CachedKeys(cache') =
                           (CachedKeys(cache) \ {LeastRecentlyUsed(cache, recency)}) \cup {new}]_vars

\* the cache was filled with SrcGood and SrcWarn, SrcGood was hit, and the
\* insertion of SrcBad made SrcWarn leave, not SrcGood
C16_Witness ==
    /\ Len(cache) = CacheMaxSize /\ hits = 1 /\ misses = 3
    /\ recency = <<CacheKey(SrcWarn, 10, FALSE), CacheKey(SrcGood, 10, FALSE),
                   CacheKey(SrcBad, 10, FALSE)>>
    /\ CachedKeys(cache) = {CacheKey(SrcGood, 10, FALSE), CacheKey(SrcBad, 10, FALSE)}

\* C17: clear_cache resets the cache completely.  After clear_cache(),
\* get_cache_stats() reports hits = 0, misses = 0, size = 0 and hit_rate = 0,
\* and the next cached validate_dot of a content cached before is a miss
\* that runs the compiler again.
C17_ClearCacheResets ==
    [][/\ valOp'.op = "clear_cache"
          => /\ get_cache_stats'.hits = 0 /\ get_cache_stats'.misses = 0
             /\ get_cache_stats'.size = 0 /\ get_cache_stats'.hit_rate = Zero
       /\ (/\ valOp.op = "clear_cache"
           /\ ValidateDotStep
           /\ valOp'.use_cache
           /\ dotInstalled
           /\ \E i \in 1..Len(recency) :
                  recency[i] = CacheKey(valOp'.dot_code, valOp'.timeout, valOp'.strict))
          => /\ ~valOp'.hit
             /\ valOp'.compiled = 1
             /\ misses' = 1 /\ hits' = 0]_vars

\* SrcGood was validated and hit, the cache was cleared, SrcGood was
\* validated again: one miss, one compiler run
C17_Witness ==
    /\ nValCalls = 3 /\ misses = 1 /\ hits = 0
    /\ recency = <<CacheKey(SrcGood, 10, FALSE)>>
    /\ valOp.op = "validate_dot" /\ valOp.dot_code = SrcGood
    /\ ~valOp.hit /\ valOp.compiled = 1
    /\ get_cache_stats.hit_rate = Fraction(0, 1)
    /\ get_cache_stats.size = 1

-----------------------------------------------------------------------------
(* Claims about the gallery scraper *)

Logged(message) == \E i \in 1..Len(scraper.errors) : scraper.errors[i] = message

\* the run has ended after its probe found no compiler
ExitedWithoutCompiler == scraper.pc = "exited" /\ ~dotInstalled

\* C19: Environment error ends the run with a failure status.  A scraper run
\* whose start-up probe finds the compiler missing reports the install hint
\* of the platform, writes no record, and exits with a non-zero status.
C19_EnvironmentErrorExit ==
    ExitedWithoutCompiler
    => /\ Logged(NotFoundMessage(scraper.system))
       /\ scraper.metrics.examples_written = 0
       /\ file = <<>>
       /\ scraper.status # 0

\* the step is a call of JSONLWriter.append
AppendCalled == storeOp' # storeOp \/ file' # file

\* C28: Only validated records reach the store.  In a scraper run, every
\* record passed to JSONLWriter.append has an output_dot for which
\* validate_dot returned is_valid = true in that run and a verification_status
\* equal to to_schema_status() of that result, hence passed_compiler; an
\* example whose validation failed is never written.
C28_OnlyValidatedWritten ==
    [][scraper.pc = "blocks"
          => LET example == Head(scraper.blocks)
             IN  /\ AppendCalled
                        => /\ storeOp'.op = "append"
                           /\ valOp'.outcome = "returned"
                           /\ valOp'.dot_code = example.dot_code
                           /\ valOp'.result.is_valid
                           /\ storeOp'.rec.output_dot = Text(example.dot_code)
                           /\ storeOp'.rec.verification_status = to_schema_status(valOp'.result)
                           /\ storeOp'.rec.verification_status = <<"passed_compiler">>
                 /\ (valOp'.outcome = "returned" /\ ~valOp'.result.is_valid)
                        => /\ UNCHANGED <<file, existing_ids, storeOp>>
                           /\ scraper'.metrics.examples_written
                                  = scraper.metrics.examples_written]_vars

\* a page of two blocks was processed: the first failed validation and left
\* the file alone, the second passed and is the one line of the file
C28_Witness ==
    /\ scraper.pc \in {"pages", "scraped"}
    /\ ~scraper.dry_run
    /\ scraper.metrics.validation_failed = 1
    /\ scraper.metrics.examples_written = 1
    /\ storeOp.op = "append" /\ storeOp.ret = "True"
    /\ storeOp.rec.verification_status = <<"passed_compiler">>
    /\ file = LineBytes(storeOp.rec)

\* the ids the store knows for records of one DOT content
IdsOfContent(code) ==
    {id \in existing_ids : \E index \in 0..(MaxBlocks - 1) : id = ExampleId(Example(code, index))}

\* the places of the file where a record line of one DOT content starts
LinesOfContent(code) ==
    {start \in {i \in 1..Len(file) : i = 1 \/ file[i - 1] = "LF"} :
        \E index \in 0..(MaxBlocks - 1) :
            LET line == LineBytes(ExampleRecord(Example(code, index),
                                                ValidationResult(TRUE, None, None, 0)))
            IN  /\ start + Len(line) - 1 <= Len(file)
                /\ SubSeq(file, start, start + Len(line) - 1) = line}

\* C29: Content-based dedup in a scraper run.  Any two examples with identical
\* DOT code processed by one scraper against one store receive the same record
\* id, so at most one record per distinct DOT content is written, whatever
\* page or block position the example came from.
C29_ContentDedup ==
    (scraper.pc # "idle" /\ ~scraper.dry_run)
    => \A code \in GalleryCodes :
           /\ Cardinality(IdsOfContent(code)) <= 1
           /\ Cardinality(LinesOfContent(code)) <= 1

-----------------------------------------------------------------------------
(* Claims about validate_batch *)

\* the inputs whose validation has ended
Completions == {i \in 1..Len(futures) : futures[i].state \in {"done", "collected"}}

\* C25: Progress callback protocol.  The calls of progress_callback are made
\* by the loop of the caller's thread, one per input dealt with, the k-th
\* with the arguments (k, N).  In sequential mode the k-th call is made when
\* input k has been validated and no later input has been started; in
\* parallel mode it is made when at least k validations have ended, for the
\* input that was collected, whatever its position.  When validate_batch
\* returns, the calls were (1, N), ..., (N, N).
C25_ProgressProtocol ==
    [][/\ (batch'.phase = batch.phase /\ batch.phase = "running"
           /\ batch'.progress # batch.progress)
          => LET k == Len(batch.progress) + 1
                 N == Len(batch.dot_codes)
             IN  /\ batch'.progress = Append(batch.progress, <<k, N>>)
                 /\ batch'.completed = k
                 /\ Len(batch'.order) = k
                 /\ futures'[batch'.order[k]].state = "collected"
                 /\ futures[batch'.order[k]].state # "collected"
                 /\ batch.parallel => Cardinality(Completions) >= k
                 /\ ~batch.parallel
                    => /\ batch'.order[k] = k
                       /\ \A j \in (k + 1)..N : futures'[j].state = "queued"
       /\ (batch'.phase = batch.phase /\ batch.phase = "running"
           /\ batch'.progress = batch.progress)
          => batch'.completed = batch.completed
       /\ batch'.phase = "returned"
          => batch'.progress =
                 [k \in 1..Len(batch'.dot_codes) |-> <<k, Len(batch'.dot_codes)>>]]_vars

\* a parallel batch of three inputs has returned, the second input was
\* collected first and the first last
C25_Witness ==
    /\ batch.phase = "returned" /\ batch.parallel
    /\ batch.order = <<2, 3, 1>>
    /\ batch.progress = <<<<1, 3>>, <<2, 3>>, <<3, 3>>>>


\* a call of validate_dot, of the batch, ends in this step: the future i
FutureEnds(i) ==
    /\ i \in 1..Len(futures) /\ Len(futures') = Len(futures)
    /\ futures[i].state \in {"queued", "running"}
    /\ futures'[i].state \in {"done", "collected"}

\* C6: Compiler-not-found is an exception, never data.  A call of validate_dot
\* that reaches the compiler run while the compiler is absent raises
\* GraphvizNotFoundError, returns no ValidationResult and stores nothing in
\* the cache; validate_batch, sequential or parallel, then does not return a
\* list of results but lets the error through.
C6_NotFoundRaises ==
    [][/\ \A i \in 1..MaxValCalls :
              (/\ FutureEnds(i)
               /\ ~dotInstalled
               /\ futures[i].code \notin {SrcEmpty, SrcBlank, SrcOver, SrcWideOver}
               /\ ~valOp'.hit)
              => /\ valOp'.dot_code = futures[i].code
                 /\ valOp'.outcome = "GraphvizNotFoundError"
                 /\ valOp'.result = NoResult
                 /\ futures'[i].outcome = "GraphvizNotFoundError"
                 /\ futures'[i].result = NoResult
                 /\ cache' = cache
       /\ batch'.phase = "returned"
              => \A i \in 1..Len(futures') : futures'[i].outcome = "returned"
       /\ (\E i \in 1..Len(futures') :
               futures'[i].state = "collected" /\ futures'[i].outcome # "returned")
              => /\ batch'.phase \in {"unwinding", "raised"}
                 /\ \A i \in 1..Len(futures') :
                        futures'[i].outcome \in {"returned", "GraphvizNotFoundError", "none"}]_vars

\* a parallel batch with the cache in use ended with the error after it had
\* stored the result of another input; the cache is empty
C6_Witness ==
    /\ batch.phase = "raised" /\ batch.parallel /\ batch.use_cache
    /\ batch.completed = 1
    /\ \E i \in 1..Len(futures) : futures[i].outcome = "GraphvizNotFoundError"
    /\ cache = <<>> /\ misses = 2

\* the results validate_dot can return for a source, cached or not
PossibleResults(code) ==
    IF code \in {SrcEmpty, SrcBlank} THEN {ValidationResult(FALSE, MsgEmpty, None, 0)}
    ELSE {Classify(outcome, BatchTimeout, BatchStrict, duration) :
              outcome \in CompilerOutcomes(code), duration \in Durations}

\* C26: Cache race between workers.  Whatever the interleaving of the
\* workers of a parallel batch that validate one (content, timeout, strict)
\* on a cold cache: the cache holds no key twice and no more entries than its
\* maximum, every entry is a complete result of its content, the result
\* stored under a key does not change while the key stays in the cache (the
\* compiler may run again, every lookup returns the one stored result), and
\* when the batch has returned every worker has returned a complete result
\* and the cache holds exactly one entry for the key.
C26_CacheRace ==
    [][/\ Len(cache') <= CacheMaxSize
       /\ Cardinality(CachedKeys(cache')) = Len(cache')
       /\ \A i \in 1..Len(cache') : cache'[i].result \in PossibleResults(cache'[i].key[2])
       /\ \A k \in CachedKeys(cache) \cap CachedKeys(cache') :
              CacheGet(cache', k) = CacheGet(cache, k)
       /\ (valOp'.op = "validate_dot" /\ valOp'.hit /\ valOp' # valOp)
          => valOp'.result = CacheGet(cache, CacheKey(valOp'.dot_code, valOp'.timeout, valOp'.strict))
       /\ (batch'.phase = "returned" /\ batch'.parallel /\ batch'.use_cache)
          => \A i \in 1..Len(batch'.dot_codes) :
                 /\ batch'.results[i] \in PossibleResults(batch'.dot_codes[i])
                 /\ batch'.dot_codes[i] \in {SrcGood, SrcBad}
                    => Cardinality({j \in 1..Len(cache') :
                                       cache'[j].key[2] = batch'.dot_codes[i]}) = 1]_vars

\* two workers validated SrcGood at once on a cold cache: both missed, one
\* run timed out and the other did not, one entry is stored
C26_Witness ==
    /\ batch.phase = "returned" /\ batch.parallel /\ batch.use_cache
    /\ batch.dot_codes = <<SrcGood, SrcGood>>
    /\ nValCalls = 2 /\ hits = 0 /\ misses = 2
    /\ batch.results[1] # batch.results[2]
    /\ Len(cache) = 1

\* C7: Batch order preservation.  The list validate_batch returns, parallel or
\* sequential, has the length of its input, and its i-th element is the
\* result of validating the i-th input, in whatever order the calls ended.
C7_BatchOrder ==
    batch.phase = "returned"
    => /\ Len(batch.results) = Len(batch.dot_codes)
       /\ Len(futures) = Len(batch.dot_codes)
       /\ \A i \in 1..Len(batch.dot_codes) :
              /\ futures[i].code = batch.dot_codes[i]
              /\ batch.results[i] = futures[i].result
              /\ batch.results[i] \in PossibleResults(batch.dot_codes[i])

\* a parallel batch of a valid, an empty and an invalid input returned, the
\* results having been stored last first
C7_Witness ==
    /\ batch.phase = "returned" /\ batch.parallel
    /\ batch.dot_codes = <<SrcGood, SrcEmpty, SrcBad>>
    /\ batch.order = <<3, 2, 1>>
    /\ batch.results[1].is_valid /\ ~batch.results[3].is_valid

====
